---------------------------- MODULE Spec2Model ----------------------------
(***************************************************************************)
(* cx_ColorLines: colour-line detection, fill and mask-confined blur.      *)
(* A model of src/plugins/cx_ColorLines/ColorLines.cpp (8-bit path).       *)
(*                                                                         *)
(* Numbers.  The code computes in double; the model computes the same      *)
(* quantities in fixed point: a weight w is the integer floor(w * 10^4),   *)
(* a parameter with one decimal (tolerance, sampleBlur, brightness, ...)   *)
(* is the integer number of tenths.  A pixel is <<red, green, blue,        *)
(* alpha>>.  A world (frame buffer) is a function from Pos to pixels.      *)
(***************************************************************************)
EXTENDS Integers, Sequences, FiniteSets, TLC

\* ------------------------------------------------------------------ bounds
\* Frame of the model: Width x Height pixels.
Width == 3
Height == 4

\* ------------------------------------------------- constants of the program
MAX_WEIGHT_TABLE_RADIUS == 50
WEIGHT_TABLE_SIZE == (MAX_WEIGHT_TABLE_RADIUS * 2 + 1) * (MAX_WEIGHT_TABLE_RADIUS * 2 + 1)
FILL_MODE_NEAREST == 1
FILL_MODE_AVERAGE == 2
FILL_MODE_WEIGHTED == 3
OUTPUT_MODE_FULL == 1
OUTPUT_MODE_LINE_ONLY == 2
OUTPUT_MODE_BG_ONLY == 3

\* Fixed-point unit of a weight (a weight w is stored as floor(w * WeightUnit)).
WeightUnit == 10 ^ 4

Pos == (0 .. Width - 1) \X (0 .. Height - 1)

Red(p) == p[1]
Green(p) == p[2]
Blue(p) == p[3]
Alpha(p) == p[4]

\* ------------------------------------------------------------ arithmetic
\* mid * mid <= distSq * 10^6 without a product above 32 bits: with
\* mid = a * 1000 + b and d = distSq - a * a this is 2000 a b + b * b <= d * 10^6,
\* whose left side is below (2 a + 1) * 10^6.
SquareAtMostMillionfold(mid, distSq) ==
    LET a == mid \div 1000
        b == mid % 1000
        d == distSq - a * a
    IN IF d < 0 THEN FALSE
       ELSE IF d >= 2 * a + 1 THEN TRUE
       ELSE 2000 * a * b + b * b <= d * 1000000

RECURSIVE ISqrtIn(_, _, _)
\* floor(sqrt(distSq * 10^6)) by bisection on [lo, hi).
ISqrtIn(distSq, lo, hi) ==
    IF hi - lo <= 1 THEN lo
    ELSE LET mid == (lo + hi) \div 2
         IN IF SquareAtMostMillionfold(mid, distSq) THEN ISqrtIn(distSq, mid, hi)
            ELSE ISqrtIn(distSq, lo, mid)

\* sqrt((double)distSq), in thousandths.
SqrtMilli(distSq) == ISqrtIn(distSq, 0, 1000 * distSq + 1)

RECURSIVE ExpNegSeries(_, _, _, _, _)
\* exp(-num/den) in units of 10^-6: the alternating series, term by term.
ExpNegSeries(num, den, k, term, acc) ==
    IF term = 0 \/ k > 12 THEN acc
    ELSE LET next == (term * num) \div (den * k)
         IN ExpNegSeries(num, den, k + 1, next,
                         IF k % 2 = 1 THEN acc - next ELSE acc + next)

\* exp(-(double)distSq / sigma2) as a fixed-point weight.
ExpNeg(distSq, sigma2) ==
    ExpNegSeries(distSq, sigma2, 1, 1000000, 1000000) \div (1000000 \div WeightUnit)

\* ClampByte: (A_u_char)(value < 0 ? 0 : (value > 255 ? 255 : value)), for the
\* quotient num/den the code forms as sum * (1.0 / totalWeight).
ClampByte(num, den) ==
    LET q == num \div den
    IN IF num < 0 THEN 0 ELSE IF q >= 255 THEN 255 ELSE q

\* ---------------------------------------------------------- weight tables
\* A table is a function from the indices written so far to weights; the
\* static array is zero-initialised, so an index never written reads 0.
TableAt(table, idx) == IF idx \in DOMAIN table THEN table[idx] ELSE 0

CapRadius(radius) ==
    IF radius > MAX_WEIGHT_TABLE_RADIUS THEN MAX_WEIGHT_TABLE_RADIUS ELSE radius

\* Mutant of InvDistWeight: the centre has no case of its own.
InvDistWeight_NoCentreCase(dx, dy) ==
    (1000 * WeightUnit) \div (SqrtMilli(dx * dx + dy * dy) + 100)

\* The weight the loop body of PrecomputeInvDistWeights stores for (dx, dy).
InvDistWeight(dx, dy) ==
    IF dx = 0 /\ dy = 0 THEN 0
    ELSE (1000 * WeightUnit) \div (SqrtMilli(dx * dx + dy * dy) + 100)

\* The table after the two loops of PrecomputeInvDistWeights ran for `radius`
\* over the old contents `table`.
InvDistTable(table, radius) ==
    LET size == radius * 2 + 1
        written == 0 .. size * size - 1
    IN [idx \in DOMAIN table \cup written |->
          IF idx \in written
          THEN InvDistWeight((idx % size) - radius, (idx \div size) - radius)
          ELSE table[idx]]

\* Mutant of GaussianWeight: the centre has the weight 0, as in the
\* inverse-distance table.
GaussianWeight_CentreZero(dx, dy, blurRadius) ==
    IF dx = 0 /\ dy = 0 THEN 0
    ELSE ExpNeg(dx * dx + dy * dy, 2 * blurRadius * blurRadius)

GaussianWeight(dx, dy, blurRadius) ==
    ExpNeg(dx * dx + dy * dy, 2 * blurRadius * blurRadius)

GaussianTable(table, blurRadius) ==
    LET size == blurRadius * 2 + 1
        written == 0 .. size * size - 1
    IN [idx \in DOMAIN table \cup written |->
          IF idx \in written
          THEN GaussianWeight((idx % size) - blurRadius, (idx \div size) - blurRadius,
                              blurRadius)
          ELSE table[idx]]

\* ----------------------------------------------------------- colour match
\* floor of toleranceSq8 = (tolerance * 4.4167)^2, tolerance in tenths:
\* floor(t^2 * 1950723889 / 10^10), in limbs of 10^4 to stay within 32 bits.
\* An integer distSq satisfies (double)distSq <= toleranceSq8 iff it is <= this.
ToleranceSq8(tolerance) ==
    LET a == tolerance * tolerance
        a1 == a \div 10000
        a0 == a % 10000
        n2 == 19
        n1 == 5072
        n0 == 3889
        p0 == a0 * n0
        p1 == a0 * n1 + a1 * n0
        p2 == a0 * n2 + a1 * n1
        p3 == a1 * n2
        q1 == p1 + (p0 \div 10000)
        q2 == p2 + (q1 \div 10000)
    IN (q2 + p3 * 10000) \div 100

\* Mutant of IsTargetColor8Fast: the comparison is strict.
IsTargetColor8Fast_Strict(pixel, targetR, targetG, targetB, toleranceSq) ==
    LET dr == Red(pixel) - targetR
        dg == Green(pixel) - targetG
        db == Blue(pixel) - targetB
        distSq == dr * dr + dg * dg + db * db
    IN distSq < toleranceSq

IsTargetColor8Fast(pixel, targetR, targetG, targetB, toleranceSq) ==
    LET dr == Red(pixel) - targetR
        dg == Green(pixel) - targetG
        db == Blue(pixel) - targetB
        distSq == dr * dr + dg * dg + db * db
    IN distSq <= toleranceSq

\* ------------------------------------------------------ colour adjustment
\* Normalised channel values ([0,1] in the code) are integers in units of
\* 1/ChanUnit, so that an 8-bit channel c is exactly c * 100.
ChanUnit == 255 * 100

Clamp01(value) == IF value < 0 THEN 0 ELSE IF value > ChanUnit THEN ChanUnit ELSE value

\* x * f, f in millionths.
MulMillionths(x, f) == (x * (f \div 1000) + (x * (f % 1000)) \div 1000) \div 1000

HueToRGB(p, q, t0) ==
    LET t == IF t0 < 0 THEN t0 + ChanUnit
             ELSE IF t0 > ChanUnit THEN t0 - ChanUnit ELSE t0
    IN IF t < ChanUnit \div 6 THEN p + ((q - p) * 6 * t) \div ChanUnit
       ELSE IF t < ChanUnit \div 2 THEN q
       ELSE IF t < (2 * ChanUnit) \div 3
            THEN p + ((q - p) * ((2 * ChanUnit) \div 3 - t) * 6) \div ChanUnit
       ELSE p

Max3(a, b, c) == IF a > b THEN (IF a > c THEN a ELSE c) ELSE (IF b > c THEN b ELSE c)
Min3(a, b, c) == IF a < b THEN (IF a < c THEN a ELSE c) ELSE (IF b < c THEN b ELSE c)

\* <<h, s, l>> of <<r, g, b>>.
RGBtoHSL(r, g, b) ==
    LET maxVal == Max3(r, g, b)
        minVal == Min3(r, g, b)
        delta == maxVal - minVal
        l == (maxVal + minVal) \div 2
    IN IF delta <= ChanUnit \div 100000 THEN <<0, 0, l>>
       ELSE LET s == IF 2 * l > ChanUnit
                     THEN (delta * ChanUnit) \div (2 * ChanUnit - maxVal - minVal)
                     ELSE (delta * ChanUnit) \div (maxVal + minVal)
                h6 == IF maxVal = r
                      THEN ((g - b) * ChanUnit) \div delta + (IF g < b THEN 6 * ChanUnit ELSE 0)
                      ELSE IF maxVal = g
                      THEN ((b - r) * ChanUnit) \div delta + 2 * ChanUnit
                      ELSE ((r - g) * ChanUnit) \div delta + 4 * ChanUnit
            IN <<h6 \div 6, s, l>>

\* <<r, g, b>> of <<h, s, l>>.
HSLtoRGB(h, s, l) ==
    IF s <= ChanUnit \div 100000 THEN <<l, l, l>>
    ELSE LET q == IF 2 * l < ChanUnit THEN (l * (ChanUnit + s)) \div ChanUnit
                  ELSE l + s - (l * s) \div ChanUnit
             p == 2 * l - q
         IN <<HueToRGB(p, q, h + ChanUnit \div 3),
              HueToRGB(p, q, h),
              HueToRGB(p, q, h - ChanUnit \div 3)>>

\* ColorAdjustParams of the parameters (tenths): brightnessFactor in channel
\* units, contrastFactor and saturationFactor in millionths.  A factor the
\* code leaves unset (its flag is FALSE) is never read; it is 0 here.
InitColorAdjustParams(brightness, contrast, saturation) ==
    [needsBrightness |-> brightness # 0,
     needsContrast |-> contrast # 0,
     needsSaturation |-> saturation # 0,
     needsAdjustment |-> (brightness # 0) \/ (contrast # 0) \/ (saturation # 0),
     brightnessFactor |-> IF brightness # 0 THEN (brightness * ChanUnit) \div 1000 ELSE 0,
     contrastFactor |-> IF contrast # 0 THEN (1000 + contrast) * (1000 + contrast) ELSE 0,
     saturationFactor |-> IF saturation # 0 THEN (1000 + saturation) * 1000 ELSE 0]

\* ClampByte(r * 255.0) of a normalised channel.
ChanToByte(r) == ClampByte(r * 255, ChanUnit)

\* Mutant of ApplyColorAdjustments8Fast: the pixel comes back opaque.
ApplyColorAdjustments8Fast_Opaque(pixel, adj) ==
    <<Red(pixel), Green(pixel), Blue(pixel), 255>>

ApplyColorAdjustments8Fast(pixel, adj) ==
    IF ~adj.needsAdjustment THEN pixel
    ELSE LET r0 == Red(pixel) * (ChanUnit \div 255)
             g0 == Green(pixel) * (ChanUnit \div 255)
             b0 == Blue(pixel) * (ChanUnit \div 255)
             Bri(c) == IF adj.needsBrightness THEN Clamp01(c + adj.brightnessFactor) ELSE c
             Con(c) == IF adj.needsContrast
                       THEN Clamp01(ChanUnit \div 2
                                    + MulMillionths(c - ChanUnit \div 2, adj.contrastFactor))
                       ELSE c
             r1 == Con(Bri(r0))
             g1 == Con(Bri(g0))
             b1 == Con(Bri(b0))
             hsl == RGBtoHSL(r1, g1, b1)
             rgb == IF adj.needsSaturation
                    THEN HSLtoRGB(hsl[1],
                                  Clamp01(MulMillionths(hsl[2], adj.saturationFactor)),
                                  hsl[3])
                    ELSE <<r1, g1, b1>>
         IN <<ChanToByte(rgb[1]), ChanToByte(rgb[2]), ChanToByte(rgb[3]), Alpha(pixel)>>

\* The float variant: a channel is a float, here in units of 1/ChanUnit.
\* Brightness and contrast are not clamped, only the arguments of RGBtoHSL
\* are, and the result is stored with a plain cast.
ApplyColorAdjustmentsFloatFast(pixel, adj) ==
    IF ~adj.needsAdjustment THEN pixel
    ELSE LET Bri(c) == IF adj.needsBrightness THEN c + adj.brightnessFactor ELSE c
             Con(c) == IF adj.needsContrast
                       THEN ChanUnit \div 2
                            + MulMillionths(c - ChanUnit \div 2, adj.contrastFactor)
                       ELSE c
             r1 == Con(Bri(Red(pixel)))
             g1 == Con(Bri(Green(pixel)))
             b1 == Con(Bri(Blue(pixel)))
             hsl == RGBtoHSL(Clamp01(r1), Clamp01(g1), Clamp01(b1))
             rgb == IF adj.needsSaturation
                    THEN HSLtoRGB(hsl[1],
                                  Clamp01(MulMillionths(hsl[2], adj.saturationFactor)),
                                  hsl[3])
                    ELSE <<r1, g1, b1>>
         IN <<rgb[1], rgb[2], rgb[3], Alpha(pixel)>>

\* ------------------------------------------------------------------ fill
\* `info` is the ColorLinesInfo of the render: a record of the parameters.
\* `world` is the frame the neighbours are read from (info->srcWorld).

\* Mutant of FillSkips8: the colour of the neighbour is not tested.
FillSkips8_TransparentOnly(info, neighbor, targetR, targetG, targetB, toleranceSq) ==
    info.ignoreTransparent /\ Alpha(neighbor) < 255

\* Mutant of FillSkips8: the alpha of the neighbour is not tested.
FillSkips8_TargetOnly(info, neighbor, targetR, targetG, targetB, toleranceSq) ==
    IsTargetColor8Fast(neighbor, targetR, targetG, targetB, toleranceSq)

\* A neighbour the fill loops skip: transparent (when asked) or target-coloured.
FillSkips8(info, neighbor, targetR, targetG, targetB, toleranceSq) ==
    \/ info.ignoreTransparent /\ Alpha(neighbor) < 255
    \/ IsTargetColor8Fast(neighbor, targetR, targetG, targetB, toleranceSq)

\* A frame is a function on (0 .. width-1) \X (0 .. height-1), width and
\* height being info->srcWorld->width and ->height.
\* !(ny < 0 || ny >= height) and !(nx < 0 || nx >= width):
WorldHasRow(world, ny) == <<0, ny>> \in DOMAIN world
WorldHasColumn(world, nx) == <<nx, 0>> \in DOMAIN world

RECURSIVE NearestScanRow8(_, _, _, _, _, _, _, _, _, _, _, _)
\* The dx loop of the row dy of one ring, from dx on.  st = [distSq, pixel,
\* pos, found, ring]: the nearest so far (pixel = <<>> is NULL), whether the
\* distance-1 exit was taken, and the last ring entered.
NearestScanRow8(info, world, x, y, ring, dy, dx, st, targetR, targetG, targetB, toleranceSq) ==
    LET nx == x + dx
        ny == y + dy
        distSq == dx * dx + dy * dy
        Rest(st2) == NearestScanRow8(info, world, x, y, ring, dy, dx + 1, st2,
                                     targetR, targetG, targetB, toleranceSq)
    IN IF dx > ring THEN st
       ELSE IF dy # -ring /\ dy # ring /\ dx # -ring /\ dx # ring THEN Rest(st)
       ELSE IF ~WorldHasColumn(world, nx) THEN Rest(st)
       ELSE IF FillSkips8(info, world[<<nx, ny>>], targetR, targetG, targetB, toleranceSq)
            THEN Rest(st)
       ELSE IF distSq < st.distSq
            THEN LET st2 == [st EXCEPT !.distSq = distSq, !.pixel = world[<<nx, ny>>],
                                       !.pos = <<nx, ny>>]
                 IN IF distSq = 1 THEN [st2 EXCEPT !.found = TRUE] ELSE Rest(st2)
       ELSE Rest(st)

RECURSIVE NearestScanRing8(_, _, _, _, _, _, _, _, _, _, _)
\* The dy loop of one ring, from the row dy on; `goto found_nearest` leaves it.
NearestScanRing8(info, world, x, y, ring, dy, st, targetR, targetG, targetB, toleranceSq) ==
    IF dy > ring THEN st
    ELSE IF ~WorldHasRow(world, y + dy)
         THEN NearestScanRing8(info, world, x, y, ring, dy + 1, st,
                               targetR, targetG, targetB, toleranceSq)
    ELSE LET st2 == NearestScanRow8(info, world, x, y, ring, dy, -ring, st,
                                    targetR, targetG, targetB, toleranceSq)
         IN IF st2.found THEN st2
            ELSE NearestScanRing8(info, world, x, y, ring, dy + 1, st2,
                                  targetR, targetG, targetB, toleranceSq)

RECURSIVE NearestRings8_StopAtFirstHit(_, _, _, _, _, _, _, _, _, _)
\* Mutant of NearestRings8: the search stops expanding after the first ring
\* that holds a qualifying neighbour.
NearestRings8_StopAtFirstHit(info, world, x, y, ring, st, targetR, targetG, targetB, toleranceSq) ==
    IF ~(ring <= info.searchRadius /\ st.distSq > 1) THEN st
    ELSE IF st.pixel # <<>> THEN st
    ELSE LET st2 == NearestScanRing8(info, world, x, y, ring, -ring, [st EXCEPT !.ring = ring],
                                     targetR, targetG, targetB, toleranceSq)
         IN IF st2.found THEN st2
            ELSE NearestRings8_StopAtFirstHit(info, world, x, y, ring + 1, st2,
                                              targetR, targetG, targetB, toleranceSq)

RECURSIVE NearestRings8(_, _, _, _, _, _, _, _, _, _)
\* The ring loop of the Nearest branch, from `ring` on.
NearestRings8(info, world, x, y, ring, st, targetR, targetG, targetB, toleranceSq) ==
    IF ~(ring <= info.searchRadius /\ st.distSq > 1) THEN st
    ELSE IF ring * ring >= st.distSq THEN st
    ELSE LET st2 == NearestScanRing8(info, world, x, y, ring, -ring, [st EXCEPT !.ring = ring],
                                     targetR, targetG, targetB, toleranceSq)
         IN IF st2.found THEN st2
            ELSE NearestRings8(info, world, x, y, ring + 1, st2,
                               targetR, targetG, targetB, toleranceSq)

NearestSearch8(info, world, x, y, targetR, targetG, targetB, toleranceSq) ==
    NearestRings8(info, world, x, y, 1,
                  [distSq |-> 999999, pixel |-> <<>>, pos |-> <<>>, found |-> FALSE, ring |-> 0],
                  targetR, targetG, targetB, toleranceSq)

RECURSIVE FillSums8(_, _, _, _, _, _, _, _, _, _, _)
\* The dy/dx loops of the Average/Weighted branch, from cell k of the window
\* on.  acc = [sumR, sumG, sumB, sumA, totalWeight, count].
FillSums8(info, world, invDistWeights, x, y, k, acc, targetR, targetG, targetB, toleranceSq) ==
    LET radius == info.searchRadius
        weightSize == radius * 2 + 1
        dy == (k \div weightSize) - radius
        dx == (k % weightSize) - radius
        nx == x + dx
        ny == y + dy
        weightRowOffset == (dy + radius) * weightSize
        weight == IF info.fillMode = FILL_MODE_AVERAGE THEN WeightUnit
                  ELSE TableAt(invDistWeights, weightRowOffset + dx + radius)
        Rest(acc2) == FillSums8(info, world, invDistWeights, x, y, k + 1, acc2,
                                targetR, targetG, targetB, toleranceSq)
    IN IF k >= weightSize * weightSize THEN acc
       ELSE IF ~WorldHasRow(world, ny) THEN Rest(acc)
       ELSE IF dx = 0 /\ dy = 0 THEN Rest(acc)
       ELSE IF ~WorldHasColumn(world, nx) THEN Rest(acc)
       ELSE IF FillSkips8(info, world[<<nx, ny>>], targetR, targetG, targetB, toleranceSq)
            THEN Rest(acc)
       ELSE LET neighbor == world[<<nx, ny>>]
            IN Rest([sumR |-> acc.sumR + Red(neighbor) * weight,
                     sumG |-> acc.sumG + Green(neighbor) * weight,
                     sumB |-> acc.sumB + Blue(neighbor) * weight,
                     sumA |-> acc.sumA + Alpha(neighbor) * weight,
                     totalWeight |-> acc.totalWeight + weight,
                     count |-> acc.count + 1])

ZeroSums == [sumR |-> 0, sumG |-> 0, sumB |-> 0, sumA |-> 0, totalWeight |-> 0, count |-> 0]

RECURSIVE BitLength(_)
\* The number of binary digits of v >= 0.
BitLength(v) == IF v = 0 THEN 0 ELSE 1 + BitLength(v \div 2)

RECURSIVE TwoPowMod(_, _)
\* 2^e mod n.
TwoPowMod(e, n) == IF e = 0 THEN 1 % n ELSE (2 * TwoPowMod(e - 1, n)) % n

\* (A_u_char)(sum * (1.0 / n)) for integers 0 <= sum <= 255 n held in doubles:
\* the quotient is formed by a multiplication with the rounded reciprocal.
\* With j the bit length of n, the double 1.0 / n is M / 2^(52+j) for M the
\* integer nearest to 2^(52+j) / n, so sum * M misses q * 2^(52+j) by q * d for
\* q = sum / n and d = 2^(52+j) - n M.  When n divides sum, the product is
\* rounded (to nearest, ties to even) to the double below q exactly when
\* q * d exceeds half the spacing of the doubles below q, 2^(j+b-2) in these
\* units, b the bit length of q - 1, and the cast then yields q - 1.  When n
\* does not divide sum, the product stays strictly between q and q + 1.
MeanByte(sum, n) ==
    LET q == sum \div n
        j == BitLength(n)
        r == TwoPowMod(52 + j, n)
        d == IF 2 * r < n THEN r ELSE r - n
        b == BitLength(q - 1)
    IN IF sum % n # 0 \/ q = 0 THEN q
       ELSE IF n = 2 ^ (j - 1) THEN q
       ELSE IF d > 0 /\ q * d > 2 ^ (j + b - 2) THEN q - 1
       ELSE q

\* ClampByte(sum * invWeight), invWeight = 1.0 / totalWeight.  When every
\* weight added was the double 1.0 (Average fill, or the centre alone in the
\* blur) the sums are whole numbers and the quotient is MeanByte; otherwise
\* the weights are fixed-point approximations and so is the quotient.
QuotientByte(sum, acc) ==
    IF acc.totalWeight = acc.count * WeightUnit
    THEN MeanByte(sum \div WeightUnit, acc.count)
    ELSE ClampByte(sum, acc.totalWeight)

\* Mutant of PixelOfSums: without a weight the pixel is cleared.
PixelOfSums_ZeroFallback(acc, inP) ==
    IF acc.totalWeight > 0
    THEN <<QuotientByte(acc.sumR, acc), QuotientByte(acc.sumG, acc),
           QuotientByte(acc.sumB, acc), QuotientByte(acc.sumA, acc)>>
    ELSE <<0, 0, 0, 0>>

\* The pixel a weighted sum yields, or inP when no weight was accumulated.
PixelOfSums(acc, inP) ==
    IF acc.totalWeight > 0
    THEN <<QuotientByte(acc.sumR, acc), QuotientByte(acc.sumG, acc),
           QuotientByte(acc.sumB, acc), QuotientByte(acc.sumA, acc)>>
    ELSE inP

\* The value of *outP before the colour adjustment.
RawFill8(info, world, invDistWeights, x, y, inP, targetR, targetG, targetB, toleranceSq) ==
    IF info.fillMode = FILL_MODE_NEAREST
    THEN LET st == NearestSearch8(info, world, x, y, targetR, targetG, targetB, toleranceSq)
         IN IF st.pixel # <<>> THEN st.pixel ELSE inP
    ELSE PixelOfSums(FillSums8(info, world, invDistWeights, x, y, 0, ZeroSums,
                               targetR, targetG, targetB, toleranceSq), inP)

\* The value FillLinePixel8 leaves in *outP.
FillLinePixel8(info, world, invDistWeights, x, y, inP, targetR, targetG, targetB, toleranceSq, adj) ==
    ApplyColorAdjustments8Fast(
        RawFill8(info, world, invDistWeights, x, y, inP, targetR, targetG, targetB, toleranceSq),
        adj)

\* ------------------------------------------------------------ line mask
\* Mutant of GetMaskAt: every cell inside the grid reads as set.
GetMaskAt_AlwaysSet(lineMask, x, y) ==
    IF x < 0 \/ x >= Width \/ y < 0 \/ y >= Height THEN 0 ELSE 255

\* The mask is <<>> (NULL) or a function from Pos to bytes (maskRowBytes = Width).
IsNull(buffer) == DOMAIN buffer = {}

GetMaskAt(lineMask, x, y) ==
    IF x < 0 \/ x >= Width \/ y < 0 \/ y >= Height THEN 0 ELSE lineMask[<<x, y>>]

\* ------------------------------------------------------ pass 1 callback
InitProcessingContext(info) ==
    [targetR8 |-> Red(info.targetColor),
     targetG8 |-> Green(info.targetColor),
     targetB8 |-> Blue(info.targetColor),
     toleranceSq8 |-> ToleranceSq8(info.tolerance),
     colorAdj |-> InitColorAdjustParams(info.brightness, info.contrast, info.saturation),
     edgeMargin |-> info.searchRadius,
     width |-> Width,
     height |-> Height]

\* Mutant of InEdgeMargin: only the left and top borders are tested.
InEdgeMargin_LeftTopOnly(c, xL, yL) == xL < c.edgeMargin \/ yL < c.edgeMargin

\* Mutant of InEdgeMargin: the right and bottom tests are off by one.
InEdgeMargin_OffByOne(c, xL, yL) ==
    xL < c.edgeMargin \/ yL < c.edgeMargin
        \/ xL > c.width - c.edgeMargin \/ yL > c.height - c.edgeMargin

\* The edge test of the pass-1 callbacks.
InEdgeMargin(c, xL, yL) ==
    xL < c.edgeMargin \/ yL < c.edgeMargin
        \/ xL >= c.width - c.edgeMargin \/ yL >= c.height - c.edgeMargin

\* Mutant of MaskByte: the flag itself is stored.
MaskByte_Flag(isLine) == IF isLine THEN 1 ELSE 0

\* The byte stored for a pixel outside the edge margin: isLine ? 255 : 0.
MaskByte(isLine) == IF isLine THEN 255 ELSE 0

\* Mutant of OutputModePixel: Full mode writes the fill result at every pixel.
OutputModePixel_FullFillsAll(outputMode, isLine, filled, inP) ==
    CASE outputMode = OUTPUT_MODE_FULL -> filled
      [] outputMode = OUTPUT_MODE_LINE_ONLY ->
           IF isLine THEN <<Red(filled), Green(filled), Blue(filled), 255>>
           ELSE <<0, 0, 0, 0>>
      [] outputMode = OUTPUT_MODE_BG_ONLY -> IF isLine THEN <<0, 0, 0, 0>> ELSE inP
      [] OTHER -> inP

\* Mutant of OutputModePixel: LineOnly clears only the colour of a non-line pixel.
OutputModePixel_LineOnlyKeepsAlpha(outputMode, isLine, filled, inP) ==
    CASE outputMode = OUTPUT_MODE_FULL -> IF isLine THEN filled ELSE inP
      [] outputMode = OUTPUT_MODE_LINE_ONLY ->
           IF isLine THEN <<Red(filled), Green(filled), Blue(filled), 255>>
           ELSE <<0, 0, 0, Alpha(inP)>>
      [] outputMode = OUTPUT_MODE_BG_ONLY -> IF isLine THEN <<0, 0, 0, 0>> ELSE inP
      [] OTHER -> inP

\* The switch on info->outputMode: the pixel written for a pixel outside the
\* edge margin; `filled` is what FillLinePixel8 leaves in *outP.
OutputModePixel(outputMode, isLine, filled, inP) ==
    CASE outputMode = OUTPUT_MODE_FULL -> IF isLine THEN filled ELSE inP
      [] outputMode = OUTPUT_MODE_LINE_ONLY ->
           IF isLine THEN <<Red(filled), Green(filled), Blue(filled), 255>>
           ELSE <<0, 0, 0, 0>>
      [] outputMode = OUTPUT_MODE_BG_ONLY -> IF isLine THEN <<0, 0, 0, 0>> ELSE inP
      [] OTHER -> inP

\* What one call of FillAndMask8_Optimized stores: the pixel written to *outP
\* and the byte written to the mask cell (xL, yL).
FillAndMask8_Optimized(c, info, world, invDistWeights, xL, yL, inP) ==
    IF InEdgeMargin(c, xL, yL) THEN [out |-> inP, mask |-> 0]
    ELSE LET isLine == IsTargetColor8Fast(inP, c.targetR8, c.targetG8, c.targetB8,
                                          c.toleranceSq8)
             filled == FillLinePixel8(info, world, invDistWeights, xL, yL, inP,
                                      c.targetR8, c.targetG8, c.targetB8, c.toleranceSq8,
                                      c.colorAdj)
         IN [out |-> OutputModePixel(info.outputMode, isLine, filled, inP),
             mask |-> MaskByte(isLine)]

\* ------------------------------------------------------ pass 2 callback
\* Mutant of BlurRowScanned: a row whose centre is masked is not recognised,
\* only the other cells of the window count.
BlurRowScanned_SideCellsOnly(lineMask, xL, ny, blurRadius) ==
    \E dx \in (-blurRadius .. blurRadius) \ {0} : GetMaskAt(lineMask, xL + dx, ny) # 0

\* The row-skip test of the 8-bit blur: the row ny contributes unless its
\* centre is unmasked and no cell of the window in that row is masked.
BlurRowScanned(lineMask, xL, ny, blurRadius) ==
    \/ GetMaskAt(lineMask, xL, ny) # 0
    \/ \E dx \in -blurRadius .. blurRadius : GetMaskAt(lineMask, xL + dx, ny) # 0

RECURSIVE BlurSums8(_, _, _, _, _, _, _, _)
\* The dy/dx loops of BlurPass8_Optimized from cell k of the window on.
BlurSums8(lineMask, temp, gaussianWeights, blurRadius, xL, yL, k, acc) ==
    LET blurSize == blurRadius * 2 + 1
        dy == (k \div blurSize) - blurRadius
        dx == (k % blurSize) - blurRadius
        nx == xL + dx
        ny == yL + dy
        weightRowOffset == (dy + blurRadius) * blurSize
        weight == TableAt(gaussianWeights, weightRowOffset + dx + blurRadius)
        Rest(acc2) == BlurSums8(lineMask, temp, gaussianWeights, blurRadius, xL, yL,
                                k + 1, acc2)
    IN IF k >= blurSize * blurSize THEN acc
       ELSE IF ny < 0 \/ ny >= Height THEN Rest(acc)
       ELSE IF ~BlurRowScanned(lineMask, xL, ny, blurRadius) THEN Rest(acc)
       ELSE IF nx < 0 \/ nx >= Width THEN Rest(acc)
       ELSE IF GetMaskAt(lineMask, nx, ny) = 0 THEN Rest(acc)
       ELSE LET neighbor == temp[<<nx, ny>>]
            IN Rest([sumR |-> acc.sumR + Red(neighbor) * weight,
                     sumG |-> acc.sumG + Green(neighbor) * weight,
                     sumB |-> acc.sumB + Blue(neighbor) * weight,
                     sumA |-> acc.sumA + Alpha(neighbor) * weight,
                     totalWeight |-> acc.totalWeight + weight,
                     count |-> acc.count + 1])

RECURSIVE BlurSums16(_, _, _, _, _, _, _, _)
\* The dy/dx loops of BlurPass16_Optimized from cell k of the window on: the
\* loops of the 8-bit blur without the test that skips a row.
BlurSums16(lineMask, temp, gaussianWeights, blurRadius, xL, yL, k, acc) ==
    LET blurSize == blurRadius * 2 + 1
        dy == (k \div blurSize) - blurRadius
        dx == (k % blurSize) - blurRadius
        nx == xL + dx
        ny == yL + dy
        weightRowOffset == (dy + blurRadius) * blurSize
        weight == TableAt(gaussianWeights, weightRowOffset + dx + blurRadius)
        Rest(acc2) == BlurSums16(lineMask, temp, gaussianWeights, blurRadius, xL, yL,
                                 k + 1, acc2)
    IN IF k >= blurSize * blurSize THEN acc
       ELSE IF ny < 0 \/ ny >= Height THEN Rest(acc)
       ELSE IF nx < 0 \/ nx >= Width THEN Rest(acc)
       ELSE IF GetMaskAt(lineMask, nx, ny) = 0 THEN Rest(acc)
       ELSE LET neighbor == temp[<<nx, ny>>]
            IN Rest([sumR |-> acc.sumR + Red(neighbor) * weight,
                     sumG |-> acc.sumG + Green(neighbor) * weight,
                     sumB |-> acc.sumB + Blue(neighbor) * weight,
                     sumA |-> acc.sumA + Alpha(neighbor) * weight,
                     totalWeight |-> acc.totalWeight + weight,
                     count |-> acc.count + 1])

\* Mutant of BlurPass8_Optimized: the test of the pixel's own mask is missing.
BlurPass8_NoMaskTest(lineMask, temp, gaussianWeights, blurRadius, xL, yL, inP) ==
    PixelOfSums(BlurSums8(lineMask, temp, gaussianWeights, blurRadius, xL, yL, 0, ZeroSums),
                inP)

\* The pixel one call of BlurPass8_Optimized writes to *outP; inP is the
\* pixel (xL, yL) of the world the iterator reads, `temp` the world the
\* neighbours are read from (ctx->tempWorld).
BlurPass8_Optimized(lineMask, temp, gaussianWeights, blurRadius, xL, yL, inP) ==
    IF GetMaskAt(lineMask, xL, yL) = 0 THEN inP
    ELSE PixelOfSums(BlurSums8(lineMask, temp, gaussianWeights, blurRadius, xL, yL, 0,
                               ZeroSums), inP)

\* ====================================================== the render (state)
VARIABLES
    info,                  \* ColorLinesInfo: the parameters read by PreRender
    srcWorld,              \* input_worldP: the source frame (never written)
    outWorld,              \* output_worldP: the output frame
    lineMask,              \* info->lineMask: <<>> (NULL) or the byte grid
    ctx,                   \* ProcessingContext of SmartRender
    format,                \* pixel format reported by the host
    err,                   \* err of SmartRender
    blurRadius,            \* blurRadius of SmartRender
    tempWorld,             \* tempWorld: <<>> (none) or the scratch frame
    tempWorldAllocated,
    copyY,                 \* y of the snapshot copy loop
    pc,                    \* where SmartRender is
    p1,                    \* pass 1: callbacks done by each iterator thread
    p2,                    \* pass 2: callbacks done by each iterator thread
    burst,                 \* callbacks a thread runs before another thread is scheduled
    g_invDistWeights, g_currentWeightRadius,
    g_gaussianWeights, g_currentBlurRadius,
    pass1Out,              \* history: the output frame when pass 1 returned
    maskFrees,             \* history: number of free() calls on the mask
    worldDisposes,         \* history: number of PF_DisposeWorld calls
    seqRef,                \* history (SpecCallbacks): what the callbacks store run one by one
    maskMallocs,           \* history: number of malloc calls that returned a mask
    call,                  \* SpecKernels: the function called and its arguments
    ret,                   \* SpecKernels: what the call returned
    renders,               \* concurrent SmartRender calls sharing the weight tables
    builtFor               \* history: the radius each table entry was last stored for

vars == <<info, srcWorld, outWorld, lineMask, ctx, format, err, blurRadius, tempWorld,
          tempWorldAllocated, copyY, pc, p1, p2, burst, g_invDistWeights,
          g_currentWeightRadius, g_gaussianWeights, g_currentBlurRadius, pass1Out, maskFrees,
          worldDisposes, seqRef, maskMallocs, call, ret, renders, builtFor>>

\* ----------------------------------------------------------------- inputs
\* Colours of the frames: a colour within the tolerance of the target
\* colour, an opaque and a half-transparent colour far from it.
LineColor == <<250, 10, 10, 255>>
PaperColor == <<40, 200, 90, 255>>
GlassColor == <<20, 60, 240, 128>>
Palette == {LineColor, PaperColor, GlassColor}
\* What an output or scratch buffer holds before it is written.
Garbage == <<1, 2, 3, 4>>

\* The frames: a background colour, and one pixel of any colour.
Frames == {[p \in Pos |-> IF p = q THEN c ELSE bg] : q \in Pos, bg \in Palette, c \in Palette}

\* The largest blur radius a render of the model asks for.
MaxBlurRadius == 1
SampleBlurs == {0, 100 * MaxBlurRadius}
SearchRadii == {1}
NoAdjustment == <<0, 0, 0>>
\* <<brightness, contrast, saturation>>, in tenths.
Adjustments == {NoAdjustment, <<100, -200, 300>>}

InfosOf(ignoreTransparents, adjustments) ==
    {[targetColor |-> <<255, 0, 0, 255>>,
      tolerance |-> 100,
      fillMode |-> fm,
      searchRadius |-> sr,
      ignoreTransparent |-> it,
      sampleBlur |-> sb,
      brightness |-> a[1],
      contrast |-> a[2],
      saturation |-> a[3],
      outputMode |-> om] :
        fm \in {FILL_MODE_NEAREST, FILL_MODE_AVERAGE, FILL_MODE_WEIGHTED},
        sr \in SearchRadii, it \in ignoreTransparents, sb \in SampleBlurs,
        a \in adjustments,
        om \in {OUTPUT_MODE_FULL, OUTPUT_MODE_LINE_ONLY, OUTPUT_MODE_BG_ONLY}}

\* A sample blur just below the first step of the blur radius (9.9).
SubStepBlur == 99

\* The parameters of the renders: every fill mode, output mode and blur, with
\* ignoreTransparent or with a colour adjustment, and the Full renders of
\* every fill mode with the sub-step blur.
Infos ==
    InfosOf(BOOLEAN, {NoAdjustment})
        \cup InfosOf({FALSE}, Adjustments)
        \cup {[i EXCEPT !.sampleBlur = SubStepBlur] :
                 i \in {j \in InfosOf({FALSE}, {NoAdjustment}) :
                          j.outputMode = OUTPUT_MODE_FULL}}

\* ------------------------------------------------------- iterator threads
\* The host iterator splits the rows 0 .. Height-1 into one contiguous range
\* per thread; each thread calls the callback for the pixels of its range in
\* raster order, the threads run concurrently.
Threads == {1, 2}
FirstRow(t) == ((t - 1) * Height) \div Cardinality(Threads)
Cells(t) == (FirstRow(t + 1) - FirstRow(t)) * Width
PixelAt(t, n) == <<n % Width, FirstRow(t) + n \div Width>>
IterateDone(p) == \A t \in Threads : p[t] = Cells(t)
IterateFresh(p) == \A t \in Threads : p[t] = 0

\* Mutant of BlurRadiusOf: the quotient is rounded to the nearest integer.
BlurRadiusOf_Rounded(sampleBlur) == (sampleBlur + 50) \div 100

\* (A_long)(infoP->sampleBlur / 10.0), sampleBlur in tenths.
BlurRadiusOf(sampleBlur) == sampleBlur \div 100

\* What the callbacks of a render with parameters i on the frame f store
\* when they run one after another, each reading the source frame alone in
\* pass 1 and the pass-1 output alone in pass 2: the pixel and the mask byte
\* of pass 1 and the pixel of pass 2, at every position.
SequentialRender(i, f) ==
    LET weights == IF i.fillMode = FILL_MODE_WEIGHTED
                   THEN InvDistTable(<<>>, CapRadius(i.searchRadius)) ELSE <<>>
        radius == BlurRadiusOf(i.sampleBlur)
        one == [p \in Pos |->
                  FillAndMask8_Optimized(InitProcessingContext(i), i, f, weights,
                                         p[1], p[2], f[p])]
        out == [p \in Pos |-> one[p].out]
        mask == [p \in Pos |-> one[p].mask]
        gauss == GaussianTable(<<>>, CapRadius(radius))
    IN [out |-> out,
        mask |-> mask,
        blur |-> IF radius < 1 THEN out
                 ELSE [p \in Pos |->
                         BlurPass8_Optimized(mask, out, gauss, radius, p[1], p[2], out[p])]]

InitCommon ==
    /\ outWorld = [p \in Pos |-> Garbage]
    /\ lineMask = <<>>
    /\ ctx = <<>>
    /\ format = "PF_PixelFormat_INVALID"
    /\ err = "PF_Err_NONE"
    /\ blurRadius = 0
    /\ tempWorld = <<>>
    /\ tempWorldAllocated = FALSE
    /\ copyY = 0
    /\ pc = "start"
    /\ p1 = [t \in Threads |-> 0]
    /\ p2 = [t \in Threads |-> 0]
    /\ g_invDistWeights = <<>>
    /\ g_currentWeightRadius = 0
    /\ g_gaussianWeights = <<>>
    /\ g_currentBlurRadius = 0
    /\ pass1Out = <<>>
    /\ maskFrees = 0
    /\ worldDisposes = 0
    /\ maskMallocs = 0
    /\ call = <<>>
    /\ ret = <<>>

\* Renders of every parameter set; an iterator thread runs the callbacks of
\* a whole row before another thread is scheduled.
Init ==
    /\ info \in Infos
    /\ srcWorld \in Frames
    /\ seqRef = <<>>
    /\ burst = Width
    /\ renders = <<>>
    /\ builtFor = <<>>
    /\ InitCommon

\* Renders in which the threads interleave callback by callback: both passes
\* run, on the frames that hold the line colour.
CallbackInfos ==
    {i \in InfosOf({TRUE}, {NoAdjustment}) : BlurRadiusOf(i.sampleBlur) >= 1}

CallbackFrames == {f \in Frames : \E p \in Pos : f[p] = LineColor}

InitCallbacks ==
    /\ info \in CallbackInfos
    /\ srcWorld \in CallbackFrames
    /\ seqRef = SequentialRender(info, srcWorld)
    /\ burst = 1
    /\ renders = <<>>
    /\ builtFor = <<>>
    /\ InitCommon

\* ================================================================ actions
\* PrecomputeInvDistWeights(radius): the table and the cached radius after it.
PrecomputeInvDistWeights(table, current, radius) ==
    IF radius = current THEN [table |-> table, radius |-> current]
    ELSE [table |-> InvDistTable(table, CapRadius(radius)), radius |-> CapRadius(radius)]

\* PrecomputeGaussianWeights(blurRadius): likewise.
PrecomputeGaussianWeights(table, current, radius) ==
    IF radius = current THEN [table |-> table, radius |-> current]
    ELSE [table |-> GaussianTable(table, CapRadius(radius)), radius |-> CapRadius(radius)]

\* Mutant of SupportedFormat: the switch has no default branch.
SupportedFormat_Any(fmt) == TRUE

\* The switch on the pixel format: the case of the 8-bit iterator.  The
\* 16-bit and float cases call callbacks of their own and are not modelled;
\* every other format takes the default branch.
SupportedFormat(fmt) == fmt = "PF_PixelFormat_ARGB32"

\* What PF_GetPixelFormat may answer: <<error, format>>; on an error the
\* format keeps its initial value.
FormatAnswers ==
    {<<"PF_Err_NONE", "PF_PixelFormat_ARGB32">>,
     <<"PF_Err_NONE", "PF_PixelFormat_BGRA32">>,
     <<"PF_Err_NONE", "PF_PixelFormat_INVALID">>,
     <<"PF_Err_INTERNAL_STRUCT_DAMAGED", "PF_PixelFormat_INVALID">>}

\* SmartRender up to the call of the pass-1 iterator: the mask is allocated
\* (malloc may fail), the context is built, the pixel format is queried.
Begin ==
    /\ pc = "start"
    /\ \E allocOk \in BOOLEAN, fmt \in FormatAnswers :
         LET w == IF info.fillMode = FILL_MODE_WEIGHTED
                  THEN PrecomputeInvDistWeights(g_invDistWeights, g_currentWeightRadius,
                                                info.searchRadius)
                  ELSE [table |-> g_invDistWeights, radius |-> g_currentWeightRadius]
         IN /\ lineMask' = IF allocOk THEN [p \in Pos |-> 0] ELSE <<>>
            /\ maskMallocs' = IF allocOk THEN maskMallocs + 1 ELSE maskMallocs
            /\ ctx' = InitProcessingContext(info)
            /\ g_invDistWeights' = w.table
            /\ g_currentWeightRadius' = w.radius
            /\ format' = fmt[2]
            /\ err' = IF fmt[1] # "PF_Err_NONE" THEN fmt[1]
                      ELSE IF SupportedFormat(fmt[2]) THEN "PF_Err_NONE"
                      ELSE "PF_Err_BAD_CALLBACK_PARAM"
            /\ pc' = IF fmt[1] = "PF_Err_NONE" /\ SupportedFormat(fmt[2])
                     THEN "pass1" ELSE "blur"
    /\ UNCHANGED <<call, ret, renders, builtFor, seqRef, info, srcWorld, outWorld, blurRadius, tempWorld, tempWorldAllocated,
                   copyY, p1, p2, burst, g_gaussianWeights, g_currentBlurRadius,
                   pass1Out, maskFrees, worldDisposes>>

\* Mutant of InfoSrcWorld: the fill reads the frame being written.
InfoSrcWorld_Output(input_world, output_world) == output_world

\* info->srcWorld = input_worldP: the world the fill reads its neighbours from.
InfoSrcWorld(input_world, output_world) == input_world

\* Mutant of BlurCtxTempWorld: the blur reads the frame being written.
BlurCtxTempWorld_Output(temp_world, output_world) == output_world

\* blurCtx.tempWorld = &tempWorld: the world the blur reads its neighbours from.
BlurCtxTempWorld(temp_world, output_world) == temp_world

Min(a, b) == IF a < b THEN a ELSE b

RECURSIVE Pass1Run(_, _, _, _)
\* Thread t calls FillAndMask8_Optimized for its cells n .. m-1 in turn;
\* st = [out, mask] are the output world and the mask.
Pass1Run(t, n, m, st) ==
    IF n >= m THEN st
    ELSE LET xy == PixelAt(t, n)
             r == FillAndMask8_Optimized(ctx, info, InfoSrcWorld(srcWorld, st.out),
                                         g_invDistWeights, xy[1], xy[2], srcWorld[xy])
         IN Pass1Run(t, n + 1, m,
                     [out |-> [st.out EXCEPT ![xy] = r.out],
                      mask |-> IF IsNull(st.mask) THEN st.mask
                               ELSE [st.mask EXCEPT ![xy] = r.mask]])

\* Iterator thread t runs its next callbacks of pass 1.  With a NULL mask
\* SetMaskAtFast stores through a null pointer: the process faults, or the
\* store lands outside the state of the render.
Pass1Callbacks(t) ==
    /\ pc = "pass1"
    /\ p1[t] < Cells(t)
    /\ LET m == Min(p1[t] + burst, Cells(t))
           st == Pass1Run(t, p1[t], m, [out |-> outWorld, mask |-> lineMask])
       IN /\ outWorld' = st.out
          /\ lineMask' = st.mask
          /\ p1' = [p1 EXCEPT ![t] = m]
    /\ IF IsNull(lineMask)
       THEN \E fault \in BOOLEAN : pc' = IF fault THEN "crashed" ELSE pc
       ELSE pc' = pc
    /\ UNCHANGED <<call, ret, maskMallocs, renders, builtFor, seqRef, info, srcWorld, ctx, format, err, blurRadius, tempWorld,
                   tempWorldAllocated, copyY, p2, burst, g_invDistWeights,
                   g_currentWeightRadius, g_gaussianWeights, g_currentBlurRadius,
                   pass1Out, maskFrees, worldDisposes>>

\* The pass-1 iterator returns after every callback has returned.
Pass1Return ==
    /\ pc = "pass1"
    /\ IterateDone(p1)
    /\ err' = "PF_Err_NONE"
    /\ pass1Out' = outWorld
    /\ pc' = "blur"
    /\ UNCHANGED <<call, ret, maskMallocs, renders, builtFor, seqRef, info, srcWorld, outWorld, lineMask, ctx, format, blurRadius, tempWorld,
                   tempWorldAllocated, copyY, p1, p2, burst, g_invDistWeights,
                   g_currentWeightRadius, g_gaussianWeights, g_currentBlurRadius,
                   maskFrees, worldDisposes>>

\* The pass-1 iterator refuses the call and returns an error of the host.
Pass1Error ==
    /\ pc = "pass1"
    /\ IterateFresh(p1)
    /\ err' = "PF_Err_BAD_CALLBACK_PARAM"
    /\ pc' = "blur"
    /\ UNCHANGED <<call, ret, maskMallocs, renders, builtFor, seqRef, info, srcWorld, outWorld, lineMask, ctx, format, blurRadius, tempWorld,
                   tempWorldAllocated, copyY, p1, p2, burst, g_invDistWeights,
                   g_currentWeightRadius, g_gaussianWeights, g_currentBlurRadius,
                   pass1Out, maskFrees, worldDisposes>>

\* Mutant of BlurGuard: the error of the first pass is not tested.
BlurGuard_IgnoresErr(e, radius, mask) == radius >= 1 /\ ~IsNull(mask)

\* if (!err && blurRadius >= 1 && infoP->lineMask).
BlurGuard(e, radius, mask) == e = "PF_Err_NONE" /\ radius >= 1 /\ ~IsNull(mask)

\* SmartRender between the passes: the blur radius, the guard of the second
\* pass, the Gaussian table and the scratch world (PF_NewWorld may fail).
BlurSetup ==
    /\ pc = "blur"
    /\ blurRadius' = BlurRadiusOf(info.sampleBlur)
    /\ IF BlurGuard(err, blurRadius', lineMask)
       THEN LET g == PrecomputeGaussianWeights(g_gaussianWeights, g_currentBlurRadius,
                                               blurRadius')
            IN /\ g_gaussianWeights' = g.table
               /\ g_currentBlurRadius' = g.radius
               /\ \E newWorldOk \in BOOLEAN :
                    IF newWorldOk
                    THEN /\ err' = err
                         /\ tempWorldAllocated' = TRUE
                         /\ tempWorld' = [p \in Pos |-> Garbage]
                         /\ pc' = "copy"
                    ELSE /\ err' = "PF_Err_OUT_OF_MEMORY"
                         /\ UNCHANGED <<tempWorldAllocated, tempWorld>>
                         /\ pc' = "free"
       ELSE /\ pc' = "free"
            /\ UNCHANGED <<err, tempWorldAllocated, tempWorld, g_gaussianWeights,
                           g_currentBlurRadius>>
    /\ copyY' = 0
    /\ UNCHANGED <<call, ret, maskMallocs, renders, builtFor, seqRef, info, srcWorld, outWorld, lineMask, ctx, format, p1, p2, burst,
                   g_invDistWeights, g_currentWeightRadius, pass1Out, maskFrees,
                   worldDisposes>>

\* Mutant of SnapshotCopied: the copy loop stops one row early.
SnapshotCopied_OffByOne(y) == y >= Height - 1

\* The copy loop has ended: !(y < output_worldP->height).
SnapshotCopied(y) == y >= Height

\* One iteration of the loop that copies the output to the scratch world.
CopyRow ==
    /\ pc = "copy"
    /\ copyY < Height
    /\ tempWorld' = [p \in Pos |-> IF p[2] = copyY THEN outWorld[p] ELSE tempWorld[p]]
    /\ copyY' = copyY + 1
    /\ pc' = IF SnapshotCopied(copyY') THEN "pass2" ELSE "copy"
    /\ UNCHANGED <<call, ret, maskMallocs, renders, builtFor, seqRef, info, srcWorld, outWorld, lineMask, ctx, format, err, blurRadius,
                   tempWorldAllocated, p1, p2, burst, g_invDistWeights, g_currentWeightRadius,
                   g_gaussianWeights, g_currentBlurRadius, pass1Out, maskFrees,
                   worldDisposes>>

RECURSIVE Pass2Run(_, _, _, _)
\* Thread t calls BlurPass8_Optimized for its cells n .. m-1 in turn.
Pass2Run(t, n, m, out) ==
    IF n >= m THEN out
    ELSE LET xy == PixelAt(t, n)
         IN Pass2Run(t, n + 1, m,
                     [out EXCEPT ![xy] =
                        BlurPass8_Optimized(lineMask, BlurCtxTempWorld(tempWorld, out),
                                            g_gaussianWeights, blurRadius,
                                            xy[1], xy[2], tempWorld[xy])])

\* Iterator thread t runs its next callbacks of pass 2.
Pass2Callbacks(t) ==
    /\ pc = "pass2"
    /\ p2[t] < Cells(t)
    /\ LET m == Min(p2[t] + burst, Cells(t))
       IN /\ outWorld' = Pass2Run(t, p2[t], m, outWorld)
          /\ p2' = [p2 EXCEPT ![t] = m]
    /\ UNCHANGED <<call, ret, maskMallocs, renders, builtFor, seqRef, info, srcWorld, lineMask, ctx, format, err, blurRadius, tempWorld,
                   tempWorldAllocated, copyY, pc, p1, burst, g_invDistWeights,
                   g_currentWeightRadius, g_gaussianWeights, g_currentBlurRadius,
                   pass1Out, maskFrees, worldDisposes>>

Pass2Return ==
    /\ pc = "pass2"
    /\ IterateDone(p2)
    /\ err' = "PF_Err_NONE"
    /\ pc' = "dispose"
    /\ UNCHANGED <<call, ret, maskMallocs, renders, builtFor, seqRef, info, srcWorld, outWorld, lineMask, ctx, format, blurRadius, tempWorld,
                   tempWorldAllocated, copyY, p1, p2, burst, g_invDistWeights,
                   g_currentWeightRadius, g_gaussianWeights, g_currentBlurRadius,
                   pass1Out, maskFrees, worldDisposes>>

Pass2Error ==
    /\ pc = "pass2"
    /\ IterateFresh(p2)
    /\ err' = "PF_Err_BAD_CALLBACK_PARAM"
    /\ pc' = "dispose"
    /\ UNCHANGED <<call, ret, maskMallocs, renders, builtFor, seqRef, info, srcWorld, outWorld, lineMask, ctx, format, blurRadius, tempWorld,
                   tempWorldAllocated, copyY, p1, p2, burst, g_invDistWeights,
                   g_currentWeightRadius, g_gaussianWeights, g_currentBlurRadius,
                   pass1Out, maskFrees, worldDisposes>>

\* Mutant of DisposeNeeded: the scratch world is disposed only after a
\* blur pass without error.
DisposeNeeded_OnSuccess(allocated, e) == allocated /\ e = "PF_Err_NONE"

\* if (tempWorldAllocated): the test before PF_DisposeWorld.
DisposeNeeded(allocated, e) == allocated

\* if (tempWorldAllocated) PF_DisposeWorld(&tempWorld).
DisposeWorld ==
    /\ pc = "dispose"
    /\ IF DisposeNeeded(tempWorldAllocated, err)
       THEN /\ worldDisposes' = worldDisposes + 1
            /\ tempWorld' = <<>>
       ELSE UNCHANGED <<worldDisposes, tempWorld>>
    /\ pc' = "free"
    /\ UNCHANGED <<call, ret, maskMallocs, renders, builtFor, seqRef, info, srcWorld, outWorld, lineMask, ctx, format, err, blurRadius,
                   tempWorldAllocated, copyY, p1, p2, burst, g_invDistWeights,
                   g_currentWeightRadius, g_gaussianWeights, g_currentBlurRadius,
                   pass1Out, maskFrees>>

\* if (lineMask) { free(lineMask); lineMask = NULL; }, check-in, return err.
FreeMask ==
    /\ pc = "free"
    /\ IF ~IsNull(lineMask)
       THEN /\ maskFrees' = maskFrees + 1
            /\ lineMask' = <<>>
       ELSE UNCHANGED <<maskFrees, lineMask>>
    /\ pc' = "done"
    /\ UNCHANGED <<call, ret, maskMallocs, renders, builtFor, seqRef, info, srcWorld, outWorld, ctx, format, err, blurRadius, tempWorld,
                   tempWorldAllocated, copyY, p1, p2, burst, g_invDistWeights,
                   g_currentWeightRadius, g_gaussianWeights, g_currentBlurRadius,
                   pass1Out, worldDisposes>>

Next ==
    \/ Begin
    \/ \E t \in Threads : Pass1Callbacks(t)
    \/ Pass1Return
    \/ Pass1Error
    \/ BlurSetup
    \/ CopyRow
    \/ \E t \in Threads : Pass2Callbacks(t)
    \/ Pass2Return
    \/ Pass2Error
    \/ DisposeWorld
    \/ FreeMask

Spec == Init /\ [][Next]_vars

SpecCallbacks == InitCallbacks /\ [][Next]_vars

\* ------------------------------------------- renders sharing the tables
\* The effect declares PF_OutFlag2_SUPPORTS_THREADED_RENDERING, so the host
\* may run SmartRender for several frames at once.  The weight tables and
\* the cached radii are statics of the plug-in without any lock; every row of
\* stores of the precompute loops and every read of a callback is a step of
\* its own.
Renders == {1, 2}
RaceRadii == {1, 2}

\* The parameters of a concurrent render: a Weighted fill without blur, or a
\* Nearest fill followed by a blur.
RaceInfos ==
    {[fillMode |-> FILL_MODE_WEIGHTED, searchRadius |-> r, sampleBlur |-> 0] :
        r \in RaceRadii}
    \cup {[fillMode |-> FILL_MODE_NEAREST, searchRadius |-> 1, sampleBlur |-> 100 * r] :
        r \in RaceRadii}

InitRace ==
    /\ info = <<>>
    /\ srcWorld = <<>>
    /\ seqRef = <<>>
    /\ burst = 0
    /\ InitCommon
    /\ renders \in [Renders -> {[info |-> i, pc |-> "context", radius |-> 0, k |-> 0,
                                 rd |-> <<>>] : i \in RaceInfos}]
    /\ builtFor = [inv |-> <<>>, gauss |-> <<>>]

renderVars == <<info, srcWorld, outWorld, lineMask, ctx, format, err, blurRadius, tempWorld,
                tempWorldAllocated, copyY, pc, p1, p2, burst, pass1Out, maskFrees,
                worldDisposes, seqRef, maskMallocs, call, ret>>

\* A check that takes a larger cached table to cover a smaller radius.
WeightTableHit_LargerCovers(radius, cached) == radius <= cached

\* Mutant of WeightTableHit: any table built before counts as a hit.
WeightTableHit_AnyBuilt(radius, current) == current # 0

\* if (radius == g_currentWeightRadius) return; likewise for the blur radius.
WeightTableHit(radius, current) == radius = current

\* idx = (dy + radius) * size + (dx + radius), size = radius * 2 + 1.
TableIndex(dx, dy, radius) == (dy + radius) * (radius * 2 + 1) + (dx + radius)

\* The table after the inner loop ran for the row dy: table[idx] = weights[dx]
\* for dx = -radius .. radius.
TableStoreRow(table, dy, radius, weights) ==
    LET row == {TableIndex(dx, dy, radius) : dx \in -radius .. radius}
    IN [i \in DOMAIN table \cup row |->
          IF i \in row THEN weights[(i % (radius * 2 + 1)) - radius] ELSE table[i]]

\* InitProcessingContext of render r: a Weighted fill calls
\* PrecomputeInvDistWeights, which returns at once on a hit.
RaceInitContext(r) ==
    LET me == renders[r]
    IN /\ me.pc = "context"
       /\ renders' = [renders EXCEPT ![r] =
            IF me.info.fillMode = FILL_MODE_WEIGHTED
               /\ ~WeightTableHit(me.info.searchRadius, g_currentWeightRadius)
            THEN [me EXCEPT !.pc = "invLoop", !.radius = CapRadius(me.info.searchRadius),
                            !.k = 0]
            ELSE [me EXCEPT !.pc = "pass1"]]
       /\ UNCHANGED <<renderVars, builtFor, g_invDistWeights, g_currentWeightRadius,
                      g_gaussianWeights, g_currentBlurRadius>>

\* One iteration of the outer loop of PrecomputeInvDistWeights: the stores
\* of the row dy.
RaceInvDistStore(r) ==
    LET me == renders[r]
        dy == me.k - me.radius
        Weight == [dx \in -me.radius .. me.radius |-> InvDistWeight(dx, dy)]
        Origin == [dx \in -me.radius .. me.radius |-> me.radius]
    IN /\ me.pc = "invLoop"
       /\ dy <= me.radius
       /\ g_invDistWeights' = TableStoreRow(g_invDistWeights, dy, me.radius, Weight)
       /\ builtFor' = [builtFor EXCEPT
                         !.inv = TableStoreRow(builtFor.inv, dy, me.radius, Origin)]
       /\ renders' = [renders EXCEPT ![r].k = me.k + 1]
       /\ UNCHANGED <<renderVars, g_currentWeightRadius, g_gaussianWeights,
                      g_currentBlurRadius>>

\* g_currentWeightRadius = radius, after the loops.
RaceInvDistPublish(r) ==
    LET me == renders[r]
    IN /\ me.pc = "invLoop"
       /\ me.k - me.radius > me.radius
       /\ g_currentWeightRadius' = me.radius
       /\ renders' = [renders EXCEPT ![r].pc = "pass1"]
       /\ UNCHANGED <<renderVars, builtFor, g_invDistWeights, g_gaussianWeights,
                      g_currentBlurRadius>>

\* A pass-1 callback of render r: a Weighted fill reads the weight of one
\* neighbour offset with its own radius and stride; other fills read none.
RaceFillCallback(r) ==
    LET me == renders[r]
        radius == me.info.searchRadius
    IN /\ me.pc = "pass1"
       /\ IF me.info.fillMode = FILL_MODE_WEIGHTED
          THEN \E dx, dy \in -radius .. radius :
                 /\ ~(dx = 0 /\ dy = 0)
                 /\ LET idx == TableIndex(dx, dy, radius)
                    IN renders' = [renders EXCEPT ![r] =
                         [me EXCEPT !.pc = "blur",
                                    !.rd = [table |-> "inv", dx |-> dx, dy |-> dy,
                                            weight |-> TableAt(g_invDistWeights, idx),
                                            builtFor |-> TableAt(builtFor.inv, idx)]]]
          ELSE renders' = [renders EXCEPT ![r].pc = "blur"]
       /\ UNCHANGED <<renderVars, builtFor, g_invDistWeights, g_currentWeightRadius,
                      g_gaussianWeights, g_currentBlurRadius>>

\* SmartRender of render r between the passes: with a blur radius of at
\* least 1 it calls PrecomputeGaussianWeights, which returns at once on a hit.
RaceBlurSetup(r) ==
    LET me == renders[r]
        radius == BlurRadiusOf(me.info.sampleBlur)
    IN /\ me.pc = "blur"
       /\ renders' = [renders EXCEPT ![r] =
            IF radius < 1 THEN [me EXCEPT !.pc = "done"]
            ELSE IF WeightTableHit(radius, g_currentBlurRadius)
            THEN [me EXCEPT !.pc = "pass2"]
            ELSE [me EXCEPT !.pc = "gaussLoop", !.radius = CapRadius(radius), !.k = 0]]
       /\ UNCHANGED <<renderVars, builtFor, g_invDistWeights, g_currentWeightRadius,
                      g_gaussianWeights, g_currentBlurRadius>>

\* One iteration of the outer loop of PrecomputeGaussianWeights.
RaceGaussianStore(r) ==
    LET me == renders[r]
        dy == me.k - me.radius
        Weight == [dx \in -me.radius .. me.radius |-> GaussianWeight(dx, dy, me.radius)]
        Origin == [dx \in -me.radius .. me.radius |-> me.radius]
    IN /\ me.pc = "gaussLoop"
       /\ dy <= me.radius
       /\ g_gaussianWeights' = TableStoreRow(g_gaussianWeights, dy, me.radius, Weight)
       /\ builtFor' = [builtFor EXCEPT
                         !.gauss = TableStoreRow(builtFor.gauss, dy, me.radius, Origin)]
       /\ renders' = [renders EXCEPT ![r].k = me.k + 1]
       /\ UNCHANGED <<renderVars, g_invDistWeights, g_currentWeightRadius,
                      g_currentBlurRadius>>

\* g_currentBlurRadius = blurRadius, after the loops.
RaceGaussianPublish(r) ==
    LET me == renders[r]
    IN /\ me.pc = "gaussLoop"
       /\ me.k - me.radius > me.radius
       /\ g_currentBlurRadius' = me.radius
       /\ renders' = [renders EXCEPT ![r].pc = "pass2"]
       /\ UNCHANGED <<renderVars, builtFor, g_invDistWeights, g_currentWeightRadius,
                      g_gaussianWeights>>

\* A pass-2 callback of render r reads the weight of one offset of its window.
RaceBlurCallback(r) ==
    LET me == renders[r]
        radius == BlurRadiusOf(me.info.sampleBlur)
    IN /\ me.pc = "pass2"
       /\ \E dx, dy \in -radius .. radius :
            LET idx == TableIndex(dx, dy, radius)
            IN renders' = [renders EXCEPT ![r] =
                 [me EXCEPT !.pc = "done",
                            !.rd = [table |-> "gauss", dx |-> dx, dy |-> dy,
                                    weight |-> TableAt(g_gaussianWeights, idx),
                                    builtFor |-> TableAt(builtFor.gauss, idx)]]]
       /\ UNCHANGED <<renderVars, builtFor, g_invDistWeights, g_currentWeightRadius,
                      g_gaussianWeights, g_currentBlurRadius>>

NextRace ==
    \E r \in Renders :
        \/ RaceInitContext(r)
        \/ RaceInvDistStore(r)
        \/ RaceInvDistPublish(r)
        \/ RaceFillCallback(r)
        \/ RaceBlurSetup(r)
        \/ RaceGaussianStore(r)
        \/ RaceGaussianPublish(r)
        \/ RaceBlurCallback(r)

SpecRace == InitRace /\ [][NextRace]_vars

\* --------------------------------------------- renders one after another
\* The host calls SmartRender for one frame after another: the static tables
\* and cached radii a render leaves are those the next one finds.  The steps
\* of a render are those above; render r takes its steps when the renders
\* before it have returned.
SeqRenders == {1, 2, 3}

\* The parameters of such a render: every fill mode, both search radii,
\* and no blur or a blur of radius 1 or 2.
SeqInfos ==
    {[fillMode |-> FILL_MODE_WEIGHTED, searchRadius |-> 1, sampleBlur |-> 0],
     [fillMode |-> FILL_MODE_WEIGHTED, searchRadius |-> 2, sampleBlur |-> 100],
     [fillMode |-> FILL_MODE_NEAREST, searchRadius |-> 1, sampleBlur |-> 200],
     [fillMode |-> FILL_MODE_AVERAGE, searchRadius |-> 2, sampleBlur |-> 100]}

InitSequence ==
    /\ info = <<>>
    /\ srcWorld = <<>>
    /\ seqRef = <<>>
    /\ burst = 0
    /\ InitCommon
    /\ renders \in [SeqRenders -> {[info |-> i, pc |-> "context", radius |-> 0, k |-> 0,
                                    rd |-> <<>>] : i \in SeqInfos}]
    /\ builtFor = [inv |-> <<>>, gauss |-> <<>>]

\* SmartRender has returned for every render before r.
Returned(r) == \A o \in SeqRenders : o < r => renders[o].pc = "done"

NextSequence ==
    \E r \in SeqRenders :
        /\ Returned(r)
        /\ \/ RaceInitContext(r)
           \/ RaceInvDistStore(r)
           \/ RaceInvDistPublish(r)
           \/ RaceFillCallback(r)
           \/ RaceBlurSetup(r)
           \/ RaceGaussianStore(r)
           \/ RaceGaussianPublish(r)
           \/ RaceBlurCallback(r)

SpecSequence == InitSequence /\ [][NextSequence]_vars

\* ------------------------------------------- the callbacks' functions alone
\* One call of a function the pass-1 callback makes, with the arguments the
\* render can pass: `call` is the function and its arguments, `ret` what it
\* returned.

\* Channel values, target colours and tolerances (tenths) of the matcher calls.
KernelChannels == {0, 1, 10, 43, 245, 254, 255}
KernelTargets == {<<0, 0, 0, 255>>, <<255, 0, 0, 255>>, <<255, 255, 255, 255>>}
KernelTolerances == {0, 1, 100, 500, 999, 1000}

\* Pixels and <<brightness, contrast, saturation>> (tenths) of the adjuster calls.
KernelPixels ==
    Palette \cup {<<0, 0, 0, 0>>, <<255, 255, 255, 255>>, <<128, 128, 128, 77>>,
                  <<200, 100, 50, 1>>}
KernelAdjustments ==
    Adjustments \cup {<<b, c, s>> : b \in {-1000, 0, 300}, c \in {-1000, 0, 300},
                                    s \in {-1000, 0, 300}}

\* The frames of the fill calls: a background colour, a line pixel and one
\* pixel of any colour.
KernelFrames ==
    {[p \in Pos |-> IF p = q1 THEN LineColor ELSE IF p = q2 THEN c ELSE bg] :
        q1 \in Pos, q2 \in Pos, bg \in Palette, c \in Palette}

\* The parameters the fill reads: the output mode and the blur play no part.
KernelInfos ==
    {i \in InfosOf(BOOLEAN, Adjustments) : i.outputMode = OUTPUT_MODE_FULL /\ i.sampleBlur = 0}

InitKernels ==
    /\ info = <<>>
    /\ srcWorld = <<>>
    /\ seqRef = <<>>
    /\ burst = 0
    /\ renders = <<>>
    /\ builtFor = <<>>
    /\ InitCommon

kernelVars == <<info, srcWorld, outWorld, lineMask, ctx, format, err, blurRadius, tempWorld,
                tempWorldAllocated, copyY, pc, p1, p2, burst, g_invDistWeights,
                g_currentWeightRadius, g_gaussianWeights, g_currentBlurRadius, pass1Out,
                maskFrees, worldDisposes, seqRef, maskMallocs, renders, builtFor>>

\* InitProcessingContext squares the tolerance distance; a callback then
\* calls IsTargetColor8Fast on a pixel.
CallIsTargetColor8Fast ==
    /\ call = <<>>
    /\ \E r \in KernelChannels, g \in KernelChannels, b \in KernelChannels,
          target \in KernelTargets, tolerance \in KernelTolerances :
         /\ call' = [fn |-> "IsTargetColor8Fast", pixel |-> <<r, g, b, 255>>,
                     target |-> target, tolerance |-> tolerance]
         /\ ret' = IsTargetColor8Fast(<<r, g, b, 255>>, Red(target), Green(target),
                                      Blue(target), ToleranceSq8(tolerance))
    /\ UNCHANGED kernelVars

\* FillAndMask8_Optimized calls FillLinePixel8 for a line pixel outside the
\* edge margin.  ret = [raw, out, nearest]: *outP before and after the colour
\* adjustment, and the position nearestPixel points to (<<>> is NULL).
CallFillLinePixel8 ==
    /\ call = <<>>
    /\ \E i \in KernelInfos, f \in KernelFrames, p \in Pos :
         LET c == InitProcessingContext(i)
             weights == IF i.fillMode = FILL_MODE_WEIGHTED
                        THEN InvDistTable(<<>>, CapRadius(i.searchRadius)) ELSE <<>>
         IN /\ ~InEdgeMargin(c, p[1], p[2])
            /\ IsTargetColor8Fast(f[p], c.targetR8, c.targetG8, c.targetB8, c.toleranceSq8)
            /\ call' = [fn |-> "FillLinePixel8", info |-> i, world |-> f, pos |-> p]
            /\ ret' = [raw |-> RawFill8(i, f, weights, p[1], p[2], f[p], c.targetR8,
                                        c.targetG8, c.targetB8, c.toleranceSq8),
                       out |-> FillLinePixel8(i, f, weights, p[1], p[2], f[p], c.targetR8,
                                              c.targetG8, c.targetB8, c.toleranceSq8,
                                              c.colorAdj),
                       nearest |-> IF i.fillMode = FILL_MODE_NEAREST
                                   THEN NearestSearch8(i, f, p[1], p[2], c.targetR8,
                                                       c.targetG8, c.targetB8,
                                                       c.toleranceSq8).pos
                                   ELSE <<>>]
    /\ UNCHANGED kernelVars

\* FillLinePixel8 calls ApplyColorAdjustments8Fast on *outP with the
\* parameters InitColorAdjustParams derived.
CallApplyColorAdjustments8Fast ==
    /\ call = <<>>
    /\ \E pixel \in KernelPixels, a \in KernelAdjustments :
         /\ call' = [fn |-> "ApplyColorAdjustments8Fast", pixel |-> pixel,
                     brightness |-> a[1], contrast |-> a[2], saturation |-> a[3]]
         /\ ret' = ApplyColorAdjustments8Fast(pixel, InitColorAdjustParams(a[1], a[2], a[3]))
    /\ UNCHANGED kernelVars

\* Channels of the float pixels of the adjuster calls, in units of 1/ChanUnit:
\* 0.0, 0.25, 0.5 and 1.0.
KernelFloatChannels == {0, ChanUnit \div 4, ChanUnit \div 2, ChanUnit}

\* FillLinePixelFloat calls ApplyColorAdjustmentsFloatFast on *outP.
CallApplyColorAdjustmentsFloatFast ==
    /\ call = <<>>
    /\ \E r \in KernelFloatChannels, g \in KernelFloatChannels, b \in KernelFloatChannels,
          a \in KernelAdjustments :
         /\ call' = [fn |-> "ApplyColorAdjustmentsFloatFast", pixel |-> <<r, g, b, ChanUnit>>,
                     brightness |-> a[1], contrast |-> a[2], saturation |-> a[3]]
         /\ ret' = ApplyColorAdjustmentsFloatFast(<<r, g, b, ChanUnit>>,
                                                  InitColorAdjustParams(a[1], a[2], a[3]))
    /\ UNCHANGED kernelVars

\* Search radii of the calls that build the inverse-distance table: small
\* ones, the cap, and requests above the cap.
KernelRadii == {1, 2, 3, MAX_WEIGHT_TABLE_RADIUS, MAX_WEIGHT_TABLE_RADIUS + 1}

\* The index FillLinePixel8 reads g_invDistWeights at for the offset (dx, dy):
\* weightRowOffset + dx + radius, with radius = info->searchRadius.
FillWeightIndex(dx, dy, radius) ==
    LET weightSize == radius * 2 + 1
        weightRowOffset == (dy + radius) * weightSize
    IN weightRowOffset + dx + radius

\* InitProcessingContext of a Weighted render calls PrecomputeInvDistWeights
\* with info->searchRadius; the fill loops of that render then read the table.
\* ret = [first, last]: the indices they compute for the first and the last
\* offset of the window.
CallPrecomputeInvDistWeights ==
    /\ call = <<>>
    /\ \E radius \in KernelRadii :
         LET w == PrecomputeInvDistWeights(g_invDistWeights, g_currentWeightRadius, radius)
         IN /\ g_invDistWeights' = w.table
            /\ g_currentWeightRadius' = w.radius
            /\ call' = [fn |-> "PrecomputeInvDistWeights", radius |-> radius]
            /\ ret' = [first |-> FillWeightIndex(-radius, -radius, radius),
                       last |-> FillWeightIndex(radius, radius, radius)]
    /\ UNCHANGED <<info, srcWorld, outWorld, lineMask, ctx, format, err, blurRadius,
                   tempWorld, tempWorldAllocated, copyY, pc, p1, p2, burst,
                   g_gaussianWeights, g_currentBlurRadius, pass1Out, maskFrees,
                   worldDisposes, seqRef, maskMallocs, renders, builtFor>>

\* The Nearest fill with a search radius of several rings: the frame is the
\* window of the line pixel at its centre (the smallest frame in which a
\* pixel lies outside the edge margin), target-coloured but for an opaque
\* pixel anywhere and a half-transparent pixel.
NearestRadius == 4
NearestPos == (0 .. 2 * NearestRadius) \X (0 .. 2 * NearestRadius)
NearestCentre == <<NearestRadius, NearestRadius>>
\* Offsets of the half-transparent pixel: at distance 1, on a diagonal, at the
\* corner of ring 3, on the axes of ring 4, and inside ring 3.
NearestOffsets == {<<0, -1>>, <<1, 1>>, <<-3, -3>>, <<4, 0>>, <<0, -4>>, <<3, -2>>}
NearestFrames ==
    {[p \in NearestPos |->
         IF p = q1 THEN PaperColor
         ELSE IF p = <<NearestCentre[1] + o[1], NearestCentre[2] + o[2]>> THEN GlassColor
         ELSE LineColor] :
        q1 \in NearestPos \ {NearestCentre}, o \in NearestOffsets}
NearestInfos ==
    {[i EXCEPT !.searchRadius = NearestRadius] :
        i \in {j \in KernelInfos : /\ j.fillMode = FILL_MODE_NEAREST
                                   /\ j.brightness = 0 /\ j.contrast = 0
                                   /\ j.saturation = 0}}

\* FillAndMask8_Optimized calls FillLinePixel8 in Nearest mode for the centre
\* of such a frame.  ret as for CallFillLinePixel8, with the last ring the
\* search entered.
CallFillLinePixel8Nearest ==
    /\ call = <<>>
    /\ \E i \in NearestInfos, f \in NearestFrames :
         LET c == InitProcessingContext(i)
             p == NearestCentre
             st == NearestSearch8(i, f, p[1], p[2], c.targetR8, c.targetG8, c.targetB8,
                                  c.toleranceSq8)
         IN /\ IsTargetColor8Fast(f[p], c.targetR8, c.targetG8, c.targetB8, c.toleranceSq8)
            /\ call' = [fn |-> "FillLinePixel8: Nearest", info |-> i, world |-> f, pos |-> p]
            /\ ret' = [raw |-> RawFill8(i, f, <<>>, p[1], p[2], f[p], c.targetR8,
                                        c.targetG8, c.targetB8, c.toleranceSq8),
                       out |-> FillLinePixel8(i, f, <<>>, p[1], p[2], f[p], c.targetR8,
                                              c.targetG8, c.targetB8, c.toleranceSq8,
                                              c.colorAdj),
                       nearest |-> st.pos,
                       ring |-> st.ring]
    /\ UNCHANGED kernelVars

\* The Average fill over a window of 80 neighbours: the first `count` cells
\* of the frame in raster order (the centre apart) alternate between two
\* colours, the others are target-coloured.
AverageCounts == {1, 3, 8, 48, 49, 50, 80}
AverageColors == {PaperColor, GlassColor, <<255, 255, 255, 255>>}
RasterIndex(p) ==
    LET k == p[2] * (2 * NearestRadius + 1) + p[1]
        centre == NearestCentre[2] * (2 * NearestRadius + 1) + NearestCentre[1]
    IN IF k > centre THEN k - 1 ELSE k
AverageFrames ==
    {[p \in NearestPos |->
         IF p = NearestCentre \/ RasterIndex(p) >= n THEN LineColor
         ELSE IF RasterIndex(p) % 2 = 0 THEN c1 ELSE c2] :
        n \in AverageCounts, c1 \in AverageColors, c2 \in AverageColors}
AverageInfos ==
    {[i EXCEPT !.searchRadius = NearestRadius] :
        i \in {j \in KernelInfos : j.fillMode = FILL_MODE_AVERAGE}}

\* FillAndMask8_Optimized calls FillLinePixel8 in Average mode for the centre
\* of such a frame.
CallFillLinePixel8Average ==
    /\ call = <<>>
    /\ \E i \in AverageInfos, f \in AverageFrames :
         LET c == InitProcessingContext(i)
             p == NearestCentre
         IN /\ call' = [fn |-> "FillLinePixel8: Average", info |-> i, world |-> f, pos |-> p]
            /\ ret' = [raw |-> RawFill8(i, f, <<>>, p[1], p[2], f[p], c.targetR8,
                                        c.targetG8, c.targetB8, c.toleranceSq8),
                       out |-> FillLinePixel8(i, f, <<>>, p[1], p[2], f[p], c.targetR8,
                                              c.targetG8, c.targetB8, c.toleranceSq8,
                                              c.colorAdj),
                       nearest |-> <<>>,
                       ring |-> 0]
    /\ UNCHANGED kernelVars

NextKernels ==
    \/ CallIsTargetColor8Fast
    \/ CallFillLinePixel8
    \/ CallApplyColorAdjustments8Fast
    \/ CallApplyColorAdjustmentsFloatFast
    \/ CallPrecomputeInvDistWeights
    \/ CallFillLinePixel8Nearest
    \/ CallFillLinePixel8Average

SpecKernels == InitKernels /\ [][NextKernels]_vars

\* ================================================================= claims
\* The render reached its end with both passes (or pass 1 alone) complete;
\* the mask is still allocated.
RenderComplete == pc = "free" /\ err = "PF_Err_NONE" /\ ~IsNull(lineMask)
\* The blur pass ran to its end.
BlurRan == tempWorldAllocated /\ IterateDone(p2)
\* Pass 1 returned without error and the mask has not been freed.
Pass1Complete ==
    /\ pc \in {"blur", "copy", "pass2", "dispose", "free"}
    /\ IterateDone(p1)
    /\ ~IsNull(lineMask)

\* p lies within searchRadius of a border of the image.
NearBorder(p) ==
    \/ p[1] < info.searchRadius
    \/ p[2] < info.searchRadius
    \/ p[1] >= Width - info.searchRadius
    \/ p[2] >= Height - info.searchRadius

\* The source pixel at p is within the tolerance of the target colour.
MatchesTarget(p) ==
    IsTargetColor8Fast(srcWorld[p], Red(info.targetColor), Green(info.targetColor),
                       Blue(info.targetColor), ToleranceSq8(info.tolerance))

\* C1: every pixel within searchRadius of a border ends with its input value
\* and mask 0, in every fill mode and output mode, with or without blur, and
\* whatever its colour.
C1_EdgePassThrough ==
    RenderComplete =>
        \A p \in Pos : NearBorder(p) => outWorld[p] = srcWorld[p] /\ lineMask[p] = 0

\* C1 witness: a finished render with blur whose border holds a target-coloured pixel.
C1_Witness ==
    /\ RenderComplete
    /\ BlurRan
    /\ \E p \in Pos : NearBorder(p) /\ MatchesTarget(p)

\* C2: once pass 1 is complete the mask is 255 exactly at the pixels outside
\* the edge margin whose source pixel matches, 0 elsewhere, and stays so
\* through pass 2 until it is freed.
C2_MaskIffMatch ==
    Pass1Complete =>
        \A p \in Pos :
            lineMask[p] = IF ~NearBorder(p) /\ MatchesTarget(p) THEN 255 ELSE 0

\* C2 witness: pass 2 is done; a matching interior pixel is masked and a
\* matching border pixel is not.
C2_Witness ==
    /\ Pass1Complete
    /\ pc = "dispose"
    /\ \E p \in Pos : lineMask[p] = 255
    /\ \E p \in Pos : NearBorder(p) /\ MatchesTarget(p) /\ lineMask[p] = 0

\* C3 as stated: in LineOnly mode every pixel with mask 0 has alpha 0.
C3_LineOnlyMaskZeroTransparent ==
    (RenderComplete /\ info.outputMode = OUTPUT_MODE_LINE_ONLY) =>
        \A p \in Pos : lineMask[p] = 0 => Alpha(outWorld[p]) = 0

\* C3 amended: in LineOnly mode every pixel outside the edge margin with
\* mask 0 is transparent black; a pixel of the edge margin (mask 0 too) keeps
\* its input value, alpha included.
C3_LineOnlyInterior ==
    (RenderComplete /\ info.outputMode = OUTPUT_MODE_LINE_ONLY) =>
        \A p \in Pos :
            lineMask[p] = 0 =>
                outWorld[p] = IF NearBorder(p) THEN srcWorld[p] ELSE <<0, 0, 0, 0>>

\* C3 witness: a LineOnly render with an unmasked interior pixel that was opaque.
C3_Witness ==
    /\ RenderComplete
    /\ info.outputMode = OUTPUT_MODE_LINE_ONLY
    /\ \E p \in Pos : ~NearBorder(p) /\ lineMask[p] = 0 /\ Alpha(srcWorld[p]) = 255

\* C4: in BackgroundOnly mode every masked pixel is transparent black, after
\* pass 1 and after the blur.
C4_BgOnlyLineTransparent ==
    (Pass1Complete /\ info.outputMode = OUTPUT_MODE_BG_ONLY) =>
        \A p \in Pos : lineMask[p] = 255 => outWorld[p] = <<0, 0, 0, 0>>

\* C4 witness: a BackgroundOnly render after the blur, with a masked pixel
\* that has an unmasked, coloured pixel in its blur window.
C4_Witness ==
    /\ RenderComplete
    /\ BlurRan
    /\ info.outputMode = OUTPUT_MODE_BG_ONLY
    /\ \E p, q \in Pos :
         /\ lineMask[p] = 255 /\ lineMask[q] = 0
         /\ p # q
         /\ p[1] - q[1] \in -blurRadius .. blurRadius
         /\ p[2] - q[2] \in -blurRadius .. blurRadius

\* C5: the blur leaves every pixel with mask 0 at its pass-1 value.
C5_BlurKeepsUnmasked ==
    (Pass1Complete /\ tempWorldAllocated /\ copyY = Height) =>
        \A p \in Pos : lineMask[p] = 0 => outWorld[p] = pass1Out[p]

\* C5 witness: the blur ran, changed a masked pixel, and an unmasked pixel
\* lies in the blur window of a masked one.
C5_Witness ==
    /\ RenderComplete
    /\ BlurRan
    /\ \E p \in Pos : lineMask[p] = 255 /\ outWorld[p] # pass1Out[p]
    /\ \E p, q \in Pos :
         /\ lineMask[p] = 255 /\ lineMask[q] = 0
         /\ p[1] - q[1] \in -blurRadius .. blurRadius
         /\ p[2] - q[2] \in -blurRadius .. blurRadius

\* C10 as stated: when the allocation of the mask failed no callback of
\* either pass runs and SmartRender returns the out-of-memory error.
C10_MaskAllocFailureAborts ==
    (pc # "start" /\ IsNull(lineMask) /\ maskFrees = 0) =>
        /\ IterateFresh(p1)
        /\ IterateFresh(p2)
        /\ pc = "done" => err = "PF_Err_OUT_OF_MEMORY"

\* The radius render r asks of a table, and the weight a table built for
\* `radius` holds at idx.
OwnRadius(r, table) ==
    IF table = "inv" THEN CapRadius(renders[r].info.searchRadius)
    ELSE CapRadius(BlurRadiusOf(renders[r].info.sampleBlur))

UsesTable(r, table) ==
    IF table = "inv" THEN renders[r].info.fillMode = FILL_MODE_WEIGHTED
    ELSE BlurRadiusOf(renders[r].info.sampleBlur) >= 1

\* The complete tables of every radius of the renders.
BuiltTables ==
    [table \in {"inv", "gauss"} |->
        [radius \in RaceRadii |->
            [idx \in 0 .. (radius * 2 + 1) * (radius * 2 + 1) - 1 |->
                LET size == radius * 2 + 1
                    dx == (idx % size) - radius
                    dy == (idx \div size) - radius
                IN IF table = "inv" THEN InvDistWeight(dx, dy)
                   ELSE GaussianWeight(dx, dy, radius)]]]

WeightBuiltFor(table, radius, idx) == BuiltTables[table][radius][idx]

\* The callback of render r read a weight built for another radius than its own.
MismatchedRead(r) ==
    /\ ~IsNull(renders[r].rd)
    /\ renders[r].rd.builtFor # OwnRadius(r, renders[r].rd.table)

\* C7: the cache of the weight tables belongs to the last writer.  Every
\* entry holds the weight of the rebuild that stored it last, whatever the
\* cached radius says; a callback reads an entry some rebuild has stored; a
\* weight built for another radius than the reader's comes from a concurrent
\* render of that other radius which has entered its rebuild; and a weight
\* built for the reader's radius is the weight of the offset it asked for.
C7_WeightCacheLastWriterWins ==
    /\ \A idx \in DOMAIN g_invDistWeights :
         g_invDistWeights[idx] = WeightBuiltFor("inv", builtFor.inv[idx], idx)
    /\ \A idx \in DOMAIN g_gaussianWeights :
         g_gaussianWeights[idx] = WeightBuiltFor("gauss", builtFor.gauss[idx], idx)
    /\ \A r \in Renders :
         ~IsNull(renders[r].rd) =>
            LET rd == renders[r].rd
                own == OwnRadius(r, rd.table)
            IN /\ rd.builtFor \in RaceRadii
               /\ rd.builtFor # own =>
                    \E o \in Renders \ {r} :
                        /\ UsesTable(o, rd.table)
                        /\ OwnRadius(o, rd.table) = rd.builtFor
                        /\ renders[o].pc # (IF rd.table = "inv" THEN "context" ELSE "blur")
               /\ rd.builtFor = own =>
                    rd.weight = WeightBuiltFor(rd.table, own, TableIndex(rd.dx, rd.dy, own))

\* C7 witness: a callback has read a weight that was built for the radius of
\* the other render and differs from the weight of the offset it asked for.
C7_Witness ==
    \E r \in Renders :
        /\ MismatchedRead(r)
        /\ LET rd == renders[r].rd
               own == OwnRadius(r, rd.table)
           IN rd.weight # WeightBuiltFor(rd.table, own, TableIndex(rd.dx, rd.dy, own))

\* The callback of pixel p has returned, in pass 1 / in pass 2.
CallbackDone(cursor, p) ==
    \E t \in Threads :
        /\ FirstRow(t) <= p[2] /\ p[2] < FirstRow(t + 1)
        /\ (p[2] - FirstRow(t)) * Width + p[1] < cursor[t]
Done1(p) == CallbackDone(p1, p)
Done2(p) == CallbackDone(p2, p)

\* C6: the snapshot is taken only after every pass-1 callback; a pass-2
\* callback runs only with pass 1 complete, the snapshot complete and equal
\* to the pass-1 output, and the mask allocated; the mask is freed only after
\* the last pass-2 callback, and no callback runs once it is freed.
C6_PassesOrdered ==
    /\ (pc = "copy" \/ tempWorldAllocated) => IterateDone(p1)
    /\ (pc = "pass2" \/ ~IterateFresh(p2)) => IterateDone(p1) /\ copyY = Height
    /\ pc = "pass2" => tempWorld = pass1Out /\ ~IsNull(lineMask) /\ maskFrees = 0
    /\ (maskFrees > 0 /\ ~IterateFresh(p2)) => IterateDone(p2)
    /\ maskFrees > 0 => pc = "done"
    /\ pc = "pass1" => maskFrees = 0

\* C6 witness: a render with both passes, finished and cleaned up.
C6_Witness ==
    /\ pc = "done"
    /\ IterateDone(p1) /\ IterateDone(p2)
    /\ maskFrees = 1 /\ worldDisposes = 1

\* C8: at every moment of pass 1, whatever the interleaving of the threads,
\* a pixel whose callback has returned holds the value and the mask byte
\* that depend on the source frame and the context alone, and every other
\* pixel and mask cell is untouched.
C8_Pass1OrderFree ==
    (pc \in {"pass1", "blur"} /\ ~IsNull(lineMask)) =>
        LET ref == seqRef
        IN \A p \in Pos :
             IF Done1(p)
             THEN outWorld[p] = ref.out[p] /\ lineMask[p] = ref.mask[p]
             ELSE outWorld[p] = Garbage /\ lineMask[p] = 0

\* C8 witness: both threads are in the middle of their ranges and a line
\* pixel has been filled from its neighbours.
C8_Witness ==
    /\ pc = "pass1"
    /\ \A t \in Threads : 0 < p1[t] /\ p1[t] < Cells(t)
    /\ ~IsNull(lineMask)
    /\ \E p \in Pos : lineMask[p] = 255 /\ outWorld[p] # srcWorld[p]

\* C9: at every moment of pass 2, whatever the interleaving of the threads,
\* a pixel whose callback has returned holds the blur of the pass-1 output
\* and every other pixel still holds its pass-1 value.
C9_BlurOrderFree ==
    (pc \in {"pass2", "dispose"} /\ ~IsNull(lineMask)) =>
        LET ref == seqRef
        IN /\ pass1Out = ref.out
           /\ \A p \in Pos : outWorld[p] = IF Done2(p) THEN ref.blur[p] ELSE pass1Out[p]

\* C9 witness: during pass 2 a masked pixel has been blurred to a new value
\* while a masked pixel of its window has not been blurred yet.
C9_Witness ==
    /\ pc = "pass2"
    /\ \E p, q \in Pos :
         /\ p # q
         /\ lineMask[p] = 255 /\ lineMask[q] = 255
         /\ p[1] - q[1] \in -blurRadius .. blurRadius
         /\ p[2] - q[2] \in -blurRadius .. blurRadius
         /\ Done2(p) /\ ~Done2(q)
         /\ outWorld[p] # pass1Out[p]

\* ------------------------------------------------------- cleanup and errors
\* C11: on every exit path of SmartRender the line mask is freed exactly once
\* when malloc returned it, and the scratch world is disposed exactly once if
\* and only if PF_NewWorld succeeded: at every moment each buffer that was
\* obtained is either still held or was released once, and at the return
\* none is held.
C11_CleanupExactlyOnce ==
    /\ maskFrees + (IF IsNull(lineMask) THEN 0 ELSE 1) = maskMallocs
    /\ worldDisposes + (IF IsNull(tempWorld) THEN 0 ELSE 1)
         = (IF tempWorldAllocated THEN 1 ELSE 0)
    /\ pc = "done" => /\ IsNull(lineMask)
                      /\ IsNull(tempWorld)
                      /\ maskFrees = maskMallocs
                      /\ worldDisposes = (IF tempWorldAllocated THEN 1 ELSE 0)

\* A render whose pass-2 iterator failed has returned: both buffers were
\* obtained and released.
C11_Witness ==
    /\ pc = "done"
    /\ err = "PF_Err_BAD_CALLBACK_PARAM"
    /\ tempWorldAllocated
    /\ maskMallocs = 1
    /\ maskFrees = 1
    /\ worldDisposes = 1

\* C12: an error of the pass-1 iterator, of the pixel-format query or of the
\* scratch allocation is the error SmartRender returns, and no later stage
\* runs: once err is set it keeps its value and no callback, copy or store
\* to the output follows; with no scratch world obtained, no row was copied
\* and no blur callback ran.
C12_ErrorsPropagate ==
    /\ [](err # "PF_Err_NONE" /\ ~tempWorldAllocated
            => IterateFresh(p2) /\ IsNull(tempWorld) /\ copyY = 0)
    /\ [][err # "PF_Err_NONE"
            => /\ err' = err
               /\ p1' = p1
               /\ p2' = p2
               /\ copyY' = copyY
               /\ outWorld' = outWorld
               /\ tempWorldAllocated' = tempWorldAllocated]_vars

\* A render whose scratch allocation failed after a complete pass 1 has
\* returned the out-of-memory error.
C12_Witness ==
    /\ pc = "done"
    /\ err = "PF_Err_OUT_OF_MEMORY"
    /\ IterateDone(p1)
    /\ IterateFresh(p2)

\* C13: when the pixel format the host reports is none of the three supported
\* formats, no callback of either pass runs and the error is
\* PF_Err_BAD_CALLBACK_PARAM.
C13_UnsupportedFormatRejected ==
    (/\ pc # "start"
     /\ format \notin {"PF_PixelFormat_ARGB32", "PF_PixelFormat_ARGB64",
                        "PF_PixelFormat_ARGB128"}
     /\ err # "PF_Err_INTERNAL_STRUCT_DAMAGED")
        => /\ err = "PF_Err_BAD_CALLBACK_PARAM"
           /\ IterateFresh(p1)
           /\ IterateFresh(p2)
           /\ outWorld = [p \in Pos |-> Garbage]

\* A render of a frame in a format of Premiere has returned.
C13_Witness ==
    /\ pc = "done"
    /\ format = "PF_PixelFormat_BGRA32"
    /\ err = "PF_Err_BAD_CALLBACK_PARAM"
    /\ maskFrees = maskMallocs

\* ------------------------------------------------------------------- fill
\* The positions of the frame in the square window of radius r around p, p
\* itself excluded.
Window(p, r) ==
    {q \in Pos : /\ q # p
                 /\ q[1] - p[1] \in -r .. r
                 /\ q[2] - p[2] \in -r .. r}

\* No neighbour of p can be sampled: each one in the window is target-coloured
\* or, with ignoreTransparent, has an alpha below 255.
NoQualifyingNeighbour(p) ==
    \A q \in Window(p, info.searchRadius) :
        MatchesTarget(q) \/ (info.ignoreTransparent /\ Alpha(srcWorld[q]) < 255)

\* p is a line pixel outside the edge margin without a qualifying neighbour,
\* in an output mode that writes the fill result.
FallbackPixel(p) ==
    /\ ~NearBorder(p)
    /\ MatchesTarget(p)
    /\ NoQualifyingNeighbour(p)
    /\ info.outputMode \in {OUTPUT_MODE_FULL, OUTPUT_MODE_LINE_ONLY}

\* The pass-1 iterator has just returned: pass1Out is the output it left.
Pass1Returned == pc = "blur" /\ IterateDone(p1)

\* C14 as stated: a line pixel without a qualifying neighbour is written to
\* the output with the value of the input pixel, in every fill mode.
C14_NoNeighbourKeepsInput ==
    Pass1Returned =>
        \A p \in Pos : FallbackPixel(p) => pass1Out[p] = srcWorld[p]

\* C14, amended: for a line pixel without a qualifying neighbour, pass 1
\* writes the colour adjustment of the input pixel, in every fill mode, with
\* the alpha forced to 255 in LineOnly mode; when brightness, contrast and
\* saturation are all zero the colour channels written are those of the
\* input, and in Full mode the alpha too.
C14_NoNeighbourKeepsAdjustedInput ==
    Pass1Returned =>
        \A p \in Pos : FallbackPixel(p) =>
            LET adjusted == ApplyColorAdjustments8Fast(
                                srcWorld[p],
                                InitColorAdjustParams(info.brightness, info.contrast,
                                                      info.saturation))
                written == pass1Out[p]
            IN /\ Red(written) = Red(adjusted)
               /\ Green(written) = Green(adjusted)
               /\ Blue(written) = Blue(adjusted)
               /\ Alpha(written) = IF info.outputMode = OUTPUT_MODE_LINE_ONLY THEN 255
                                   ELSE Alpha(srcWorld[p])
               /\ info.brightness = 0 /\ info.contrast = 0 /\ info.saturation = 0
                    => /\ Red(written) = Red(srcWorld[p])
                       /\ Green(written) = Green(srcWorld[p])
                       /\ Blue(written) = Blue(srcWorld[p])

\* A Weighted fill with an active colour adjustment wrote a line pixel that
\* has no qualifying neighbour, and the value differs from the input.
C14_Witness ==
    /\ Pass1Returned
    /\ info.fillMode = FILL_MODE_WEIGHTED
    /\ info.brightness # 0
    /\ \E p \in Pos : FallbackPixel(p) /\ pass1Out[p] # srcWorld[p]

\* C15: the Nearest fill copies only from a position of the frame inside the
\* square window of the search radius whose pixel does not match the target
\* colour within the tolerance and, with ignoreTransparent, has alpha 255;
\* when it selects no neighbour the raw fill value is the input pixel.
C15_NearestCopiesQualifying ==
    (~IsNull(call) /\ call.fn = "FillLinePixel8"
        /\ call.info.fillMode = FILL_MODE_NEAREST) =>
        LET i == call.info
            f == call.world
            p == call.pos
            q == ret.nearest
        IN IF IsNull(q) THEN ret.raw = f[p]
           ELSE /\ q \in Pos
                /\ q # p
                /\ q[1] - p[1] \in -i.searchRadius .. i.searchRadius
                /\ q[2] - p[2] \in -i.searchRadius .. i.searchRadius
                /\ ~IsTargetColor8Fast(f[q], Red(i.targetColor), Green(i.targetColor),
                                       Blue(i.targetColor), ToleranceSq8(i.tolerance))
                /\ i.ignoreTransparent => Alpha(f[q]) = 255
                /\ ret.raw = f[q]

\* A Nearest fill with ignoreTransparent copied a diagonal neighbour: the four
\* neighbours at distance 1 are transparent and were passed over.
C15_Witness ==
    /\ ~IsNull(call)
    /\ call.fn = "FillLinePixel8"
    /\ call.info.fillMode = FILL_MODE_NEAREST
    /\ call.info.ignoreTransparent
    /\ ~IsNull(ret.nearest)
    /\ ret.nearest[1] # call.pos[1]
    /\ ret.nearest[2] # call.pos[2]
    /\ \A n \in Pos :
          (n[1] - call.pos[1]) * (n[1] - call.pos[1])
              + (n[2] - call.pos[2]) * (n[2] - call.pos[2]) = 1
          => Alpha(call.world[n]) < 255

\* ---------------------------------------------------------------- matcher
\* The squared RGB distance of the pixel and the target of a matcher call.
CallDistSq ==
    LET dr == Red(call.pixel) - Red(call.target)
        dg == Green(call.pixel) - Green(call.target)
        db == Blue(call.pixel) - Blue(call.target)
    IN dr * dr + dg * dg + db * db

\* distSq <= (tolerance * 4.4167)^2 in exact arithmetic, tolerance in tenths:
\* distSq * 10^10 <= m^2 for m = tolerance * 44167 = hi * 10^4 + lo, that is
\* distSq * 100 <= floor(m^2 / 10^8).
WithinToleranceDistance(distSq, tolerance) ==
    LET m == tolerance * 44167
        hi == m \div 10000
        lo == m % 10000
    IN distSq * 100 <= hi * hi + (2 * hi * lo + (lo * lo) \div 10000) \div 10000

\* C16: an 8-bit pixel is classified as matching exactly when its squared RGB
\* distance to the target is at most (tolerance * 4.4167)^2, the bound
\* included; with tolerance 0 only the pixel equal to the target in R, G and
\* B matches.
C16_MatchIffWithinTolerance ==
    (~IsNull(call) /\ call.fn = "IsTargetColor8Fast") =>
        /\ ret <=> WithinToleranceDistance(CallDistSq, call.tolerance)
        /\ call.tolerance = 0
             => (ret <=> /\ Red(call.pixel) = Red(call.target)
                         /\ Green(call.pixel) = Green(call.target)
                         /\ Blue(call.pixel) = Blue(call.target))

\* The two boundaries: a pixel equal to the target matched with tolerance 0
\* (distance 0 = tolerance distance 0), or a pixel at squared distance 1950
\* matched with tolerance 10 (1950 <= 1950.72 < 1951).
C16_Witness ==
    /\ ~IsNull(call)
    /\ call.fn = "IsTargetColor8Fast"
    /\ ret
    /\ \/ call.tolerance = 0 /\ CallDistSq = 0
       \/ call.tolerance = 100 /\ CallDistSq = 1950

\* C17 as stated: with tolerance 100 the matcher of the render classifies
\* every 8-bit pixel as matching, for every target colour.
C17_FullToleranceMatchesAll ==
    (~IsNull(call) /\ call.fn = "IsTargetColor8Fast" /\ call.tolerance = 1000) => ret

\* ------------------------------------------------------------ blur radius
\* SmartRender is past the guard of the second pass.
PastBlurGuard == pc \in {"copy", "pass2", "dispose", "free", "done"}

C19_NonLinePassThrough ==
    (RenderComplete /\ info.outputMode \in {OUTPUT_MODE_FULL, OUTPUT_MODE_BG_ONLY}) =>
        \A p \in Pos : lineMask[p] = 0 => outWorld[p] = srcWorld[p]

\* A Full render with blur and an active colour adjustment has ended: a
\* pixel outside the edge margin is not a line pixel, and another one is a
\* line pixel whose value changed.
C19_Witness ==
    /\ RenderComplete
    /\ BlurRan
    /\ info.outputMode = OUTPUT_MODE_FULL
    /\ info.brightness # 0
    /\ \E p \in Pos : ~NearBorder(p) /\ lineMask[p] = 0
    /\ \E p \in Pos : lineMask[p] = 255 /\ outWorld[p] # srcWorld[p]

\* --------------------------------------------------------------- adjuster
\* C20: with brightness, contrast and saturation all zero the colour
\* adjustment returns the pixel unchanged in all four channels, so that the
\* fill result written is the raw fill value; with any parameters it returns
\* the alpha it was given.
C20_AdjusterNoOpKeepsAlpha ==
    /\ (~IsNull(call) /\ call.fn = "ApplyColorAdjustments8Fast") =>
          /\ Alpha(ret) = Alpha(call.pixel)
          /\ call.brightness = 0 /\ call.contrast = 0 /\ call.saturation = 0
               => ret = call.pixel
    /\ (~IsNull(call) /\ call.fn = "FillLinePixel8") =>
          /\ Alpha(ret.out) = Alpha(ret.raw)
          /\ call.info.brightness = 0 /\ call.info.contrast = 0
                /\ call.info.saturation = 0
               => ret.out = ret.raw

\* The adjuster changed the colour of a half-transparent pixel and returned
\* its alpha.
C20_Witness ==
    /\ ~IsNull(call)
    /\ call.fn = "ApplyColorAdjustments8Fast"
    /\ call.saturation # 0
    /\ Alpha(call.pixel) = 128
    /\ Alpha(ret) = 128
    /\ ret # call.pixel

\* C21 as stated: after the colour adjustment has run with brightness,
\* contrast and saturation in [-100, 100], every RGB channel it wrote lies in
\* the native range of the pixel: 0..255 for 8-bit, 0.0..1.0 for float.
C21_AdjusterWritesNativeRange ==
    /\ (~IsNull(call) /\ call.fn = "ApplyColorAdjustments8Fast") =>
          \A k \in 1 .. 3 : ret[k] \in 0 .. 255
    /\ (~IsNull(call) /\ call.fn = "ApplyColorAdjustmentsFloatFast") =>
          \A k \in 1 .. 3 : 0 <= ret[k] /\ ret[k] <= ChanUnit

\* ------------------------------------------------------------------ blur
\* The blur pass has just returned: the mask, the snapshot and the Gaussian
\* table are the ones its callbacks read.
BlurReturned == pc = "dispose" /\ err = "PF_Err_NONE" /\ tempWorldAllocated

\* What the loops of the 8-bit blur accumulate for the pixel p.
BlurSumsAt(p) ==
    BlurSums8(lineMask, tempWorld, g_gaussianWeights, blurRadius, p[1], p[2], 0, ZeroSums)

\* What the loops without the row-skip test accumulate for the pixel p.
UnskippedSumsAt(p) ==
    BlurSums16(lineMask, tempWorld, g_gaussianWeights, blurRadius, p[1], p[2], 0, ZeroSums)

TableBuilt == ~IsNull(call) /\ call.fn = "PrecomputeInvDistWeights"

InvDistEntry(dx, dy, radius) == g_invDistWeights[TableIndex(dx, dy, radius)]

\* C24: the inverse-distance table built for a radius up to 50 is radially
\* symmetric: for every offset (dx, dy) within the radius the weights of
\* (dx, dy), (-dx, -dy), (dx, -dy) and (-dx, dy) are equal, and the weight of
\* the centre (0, 0) is 0.
C24_InvDistTableSymmetric ==
    (TableBuilt /\ call.radius <= MAX_WEIGHT_TABLE_RADIUS) =>
        /\ g_currentWeightRadius = call.radius
        /\ InvDistEntry(0, 0, call.radius) = 0
        /\ \A dx \in -call.radius .. call.radius :
              \A dy \in -call.radius .. call.radius :
                  /\ InvDistEntry(dx, dy, call.radius) = InvDistEntry(-dx, -dy, call.radius)
                  /\ InvDistEntry(dx, dy, call.radius) = InvDistEntry(dx, -dy, call.radius)
                  /\ InvDistEntry(dx, dy, call.radius) = InvDistEntry(-dx, dy, call.radius)

\* The table of radius 50 was built: the four offsets (+-3, +-4) at distance 5
\* hold the weight 1 / 5.1, the centre holds 0.
C24_Witness ==
    /\ TableBuilt
    /\ call.radius = MAX_WEIGHT_TABLE_RADIUS
    /\ InvDistEntry(0, 0, call.radius) = 0
    /\ InvDistEntry(3, -4, call.radius) = (WeightUnit * 10) \div 51
    /\ InvDistEntry(-3, 4, call.radius) = (WeightUnit * 10) \div 51
    /\ InvDistEntry(3, 4, call.radius) # InvDistEntry(3, 3, call.radius)

\* ---------------------------------------------------------- nearest fill
\* A Nearest fill of several rings was called.
NearestCalled == ~IsNull(call) /\ call.fn = "FillLinePixel8: Nearest"

\* The squared distance of the position q to the line pixel of the call.
DistSqTo(q) ==
    (q[1] - call.pos[1]) * (q[1] - call.pos[1]) + (q[2] - call.pos[2]) * (q[2] - call.pos[2])

\* The qualifying neighbours of the call: the pixels of the square window of
\* the search radius, the centre excluded, that do not match the target and,
\* with ignoreTransparent, are opaque.
CallQualifying ==
    {q \in DOMAIN call.world :
        /\ q # call.pos
        /\ q[1] - call.pos[1] \in -call.info.searchRadius .. call.info.searchRadius
        /\ q[2] - call.pos[2] \in -call.info.searchRadius .. call.info.searchRadius
        /\ ~IsTargetColor8Fast(call.world[q], Red(call.info.targetColor),
                               Green(call.info.targetColor), Blue(call.info.targetColor),
                               ToleranceSq8(call.info.tolerance))
        /\ call.info.ignoreTransparent => Alpha(call.world[q]) = 255}

\* C25: when a qualifying neighbour exists in the window, the raw value of a
\* Nearest fill is the value of a qualifying neighbour at minimal Euclidean
\* distance: the ring search with its two early exits misses no strictly
\* closer one; and when a neighbour at distance 1 qualifies, no ring beyond
\* ring 1 is entered.
C25_NearestIsMinimal ==
    (NearestCalled /\ CallQualifying # {}) =>
        /\ ret.nearest \in CallQualifying
        /\ ret.raw = call.world[ret.nearest]
        /\ \A q \in CallQualifying : DistSqTo(ret.nearest) <= DistSqTo(q)
        /\ (\E q \in CallQualifying : DistSqTo(q) = 1) => ret.ring = 1

\* The search found the corner of ring 3 (squared distance 18), went on to
\* ring 4 because 16 < 18, and took the neighbour at squared distance 16 there.
C25_Witness ==
    /\ NearestCalled
    /\ ret.ring = 4
    /\ DistSqTo(ret.nearest) = 16
    /\ \E q \in CallQualifying : DistSqTo(q) = 18

\* ---------------------------------------------------------- average fill
\* An Average fill was called with no colour adjustment active.
AverageCalled ==
    /\ ~IsNull(call)
    /\ call.fn \in {"FillLinePixel8", "FillLinePixel8: Average"}
    /\ call.info.fillMode = FILL_MODE_AVERAGE
    /\ call.info.brightness = 0 /\ call.info.contrast = 0 /\ call.info.saturation = 0

RECURSIVE ChannelSum(_, _)
\* The sum of the channel k over the pixels of the call at the positions S.
ChannelSum(S, k) ==
    IF S = {} THEN 0
    ELSE LET q == CHOOSE q \in S : TRUE
         IN call.world[q][k] + ChannelSum(S \ {q}, k)

\* C26 as stated: with no colour adjustment an Average fill writes, in each of
\* the four channels, the arithmetic mean over exactly the qualifying
\* neighbours of the window, the centre excluded, truncated to an integer;
\* when all qualifying neighbours have the same value v it writes exactly v.
C26_AverageIsTruncatedMean ==
    (AverageCalled /\ CallQualifying # {}) =>
        /\ ret.out = ret.raw
        /\ \A k \in 1 .. 4 :
              ret.out[k] = ChannelSum(CallQualifying, k) \div Cardinality(CallQualifying)
        /\ \A q \in CallQualifying :
              (\A q2 \in CallQualifying : call.world[q2] = call.world[q])
                  => ret.out = call.world[q]

\* No other pixel of the blur window of p is masked.
Isolated(p) == \A n \in Window(p, blurRadius) : lineMask[n] = 0

\* C27: the blur accumulates for every masked pixel at least the weight 1 of
\* its own centre, so the total weight is never zero; a masked pixel with no
\* other masked pixel in its blur window keeps its pass-1 value in all four
\* channels.
C27_IsolatedBlurKeepsValue ==
    BlurReturned =>
        \A p \in Pos :
            lineMask[p] # 0 =>
                /\ BlurSumsAt(p).totalWeight >= WeightUnit
                /\ BlurSumsAt(p).count >= 1
                /\ Isolated(p) =>
                      /\ BlurSumsAt(p).totalWeight = WeightUnit
                      /\ outWorld[p] = pass1Out[p]

\* The blur ran over a frame with one line pixel, which the fill had changed,
\* and left the filled value.
C27_Witness ==
    /\ BlurReturned
    /\ \E p \in Pos :
          /\ lineMask[p] # 0
          /\ Isolated(p)
          /\ BlurSumsAt(p).count = 1
          /\ outWorld[p] = pass1Out[p]
          /\ outWorld[p] # srcWorld[p]

\* ------------------------------------------------ the cache over renders
\* The radius render r reads a table with: its search radius or blur radius.
ReadRadius(r, table) ==
    IF table = "inv" THEN renders[r].info.searchRadius
    ELSE BlurRadiusOf(renders[r].info.sampleBlur)

\* C28: over renders that run one after another, a Weighted fill reads the
\* inverse-distance table with the cached radius equal to its search radius
\* and a blur callback reads the Gaussian table with the cached radius equal
\* to its blur radius; every index read lies inside the table and holds the
\* weight built for that offset (dx, dy) at that radius.
C28_SequentialCacheMatches ==
    \A r \in DOMAIN renders :
        /\ (renders[r].pc = "pass1" /\ renders[r].info.fillMode = FILL_MODE_WEIGHTED) =>
               g_currentWeightRadius = renders[r].info.searchRadius
        /\ renders[r].pc = "pass2" =>
               g_currentBlurRadius = BlurRadiusOf(renders[r].info.sampleBlur)
        /\ ~IsNull(renders[r].rd) =>
               LET rd == renders[r].rd
                   own == ReadRadius(r, rd.table)
                   idx == TableIndex(rd.dx, rd.dy, own)
               IN /\ idx \in 0 .. WEIGHT_TABLE_SIZE - 1
                  /\ idx \in DOMAIN (IF rd.table = "inv" THEN g_invDistWeights
                                      ELSE g_gaussianWeights)
                  /\ rd.builtFor = own
                  /\ rd.weight = (IF rd.table = "inv" THEN InvDistWeight(rd.dx, rd.dy)
                                  ELSE GaussianWeight(rd.dx, rd.dy, own))

\* After a Weighted render of radius 2 and one of radius 1 have returned, a
\* third render of radius 2 has rebuilt the table a second time and its fill
\* has read the weight of the corner (2, 2).
C28_Witness ==
    /\ DOMAIN renders = SeqRenders
    /\ renders[1].pc = "done" /\ renders[2].pc = "done"
    /\ \A r \in SeqRenders : renders[r].info.fillMode = FILL_MODE_WEIGHTED
    /\ renders[1].info.searchRadius = 2
    /\ renders[2].info.searchRadius = 1
    /\ renders[3].info.searchRadius = 2
    /\ renders[3].pc = "blur"
    /\ ~IsNull(renders[3].rd)
    /\ renders[3].rd.table = "inv"
    /\ renders[3].rd.dx = 2 /\ renders[3].rd.dy = 2
    /\ renders[3].rd.weight = InvDistWeight(2, 2)

\* ------------------------------------------------ the window of a fill
\* Pass 1 called the fill for p: p lies outside the edge margin, the pixel
\* matches the target (mask 255) and the output mode writes the line pixels.
FilledAt(p) ==
    /\ ~IsNull(lineMask)
    /\ lineMask[p] = 255
    /\ info.outputMode \in {OUTPUT_MODE_FULL, OUTPUT_MODE_LINE_ONLY}

\* C29: for every pixel the fill is called for, every position of the window
\* [x-R, x+R] x [y-R, y+R] passes the row test and the column test of the
\* fill loops, i.e. lies inside the source frame.
C29_FillWindowInsideFrame ==
    Pass1Returned =>
        \A p \in Pos : FilledAt(p) =>
            \A dx, dy \in -info.searchRadius .. info.searchRadius :
                /\ WorldHasRow(srcWorld, p[2] + dy)
                /\ WorldHasColumn(srcWorld, p[1] + dx)
                /\ <<p[1] + dx, p[2] + dy>> \in DOMAIN srcWorld

\* Pass 1 filled a line pixel from its neighbours in Full mode: the value
\* written differs from the source.
C29_Witness ==
    /\ Pass1Returned
    /\ info.outputMode = OUTPUT_MODE_FULL
    /\ \E p \in Pos : FilledAt(p) /\ pass1Out[p] # srcWorld[p]

\* ------------------------------------------- the neighbours of fill and blur
RECURSIVE SumsOver(_, _, _)
\* The sums over the pixels of `world` at the positions S, each with the
\* weight w gives it.
SumsOver(S, world, w) ==
    IF S = {} THEN ZeroSums
    ELSE LET q == CHOOSE q \in S : TRUE
             rest == SumsOver(S \ {q}, world, w)
         IN [sumR |-> rest.sumR + Red(world[q]) * w[q],
             sumG |-> rest.sumG + Green(world[q]) * w[q],
             sumB |-> rest.sumB + Blue(world[q]) * w[q],
             sumA |-> rest.sumA + Alpha(world[q]) * w[q],
             totalWeight |-> rest.totalWeight + w[q],
             count |-> rest.count + 1]

\* The weight the fill of p gives the neighbour q.
FillWeightOf(p) ==
    [q \in Window(p, info.searchRadius) |->
        IF info.fillMode = FILL_MODE_AVERAGE THEN WeightUnit
        ELSE InvDistWeight(q[1] - p[1], q[2] - p[2])]

\* The weight the blur of p gives the position q of its window.
BlurWeightOf(p) ==
    [q \in Window(p, blurRadius) \cup {p} |->
        GaussianWeight(q[1] - p[1], q[2] - p[2], blurRadius)]

\* What pass 1 writes at the line pixel p from the raw fill value.
WrittenFor(p, raw) ==
    OutputModePixel(info.outputMode, TRUE,
                    ApplyColorAdjustments8Fast(raw, ctx.colorAdj), srcWorld[p])

\* Pass 1 wrote at p the fill over exactly the neighbours S: their weighted
\* mean, for Nearest one of the closest of them, the input when S is empty.
FilledFrom(p, S) ==
    IF S = {} THEN pass1Out[p] = WrittenFor(p, srcWorld[p])
    ELSE IF info.fillMode = FILL_MODE_NEAREST
    THEN \E q \in S :
            /\ \A o \in S : (q[1] - p[1]) * (q[1] - p[1]) + (q[2] - p[2]) * (q[2] - p[2])
                               <= (o[1] - p[1]) * (o[1] - p[1]) + (o[2] - p[2]) * (o[2] - p[2])
            /\ pass1Out[p] = WrittenFor(p, srcWorld[q])
    ELSE pass1Out[p] =
            WrittenFor(p, PixelOfSums(SumsOver(S, srcWorld, FillWeightOf(p)), srcWorld[p]))

\* The blur wrote at p the weighted mean over exactly the positions S.
BlurredFrom(p, S) ==
    outWorld[p] = PixelOfSums(SumsOver(S, tempWorld, BlurWeightOf(p)), tempWorld[p])

\* The positions of the blur window of p whose mask value is non-zero.
MaskedInWindow(p) == {q \in Window(p, blurRadius) \cup {p} : lineMask[q] # 0}

\* The blur half of C30: the blur of a masked pixel uses a position of its
\* window exactly when the mask value there is non-zero, and the mask of a
\* pixel in the edge margin is 0 whatever its colour.
BlurUsesMasked ==
    BlurReturned =>
        /\ \A p \in Pos : lineMask[p] # 0 => BlurredFrom(p, MaskedInWindow(p))
        /\ \A e \in Pos : NearBorder(e) => lineMask[e] = 0

\* C30 as stated: the fill uses a neighbour exactly when its source colour
\* does not match the target, whatever its mask value; the blur uses a
\* neighbour exactly when its mask value is non-zero, so that a
\* target-coloured pixel of the edge margin is used by neither.
C30_FillSkipsTargetBlurSkipsUnmasked ==
    /\ Pass1Returned =>
          \A p \in Pos : FilledAt(p) =>
              FilledFrom(p, {q \in Window(p, info.searchRadius) : ~MatchesTarget(q)})
    /\ BlurUsesMasked

\* C30, amended: the fill uses a neighbour exactly when its source colour
\* does not match the target and, with ignoreTransparent, its alpha is 255,
\* whatever its mask value; the blur uses a neighbour exactly when its mask
\* value is non-zero, so that a target-coloured pixel of the edge margin is
\* used by neither.
C30_FillSkipsTargetOrTransparent ==
    /\ Pass1Returned =>
          \A p \in Pos : FilledAt(p) =>
              FilledFrom(p, {q \in Window(p, info.searchRadius) :
                                /\ ~MatchesTarget(q)
                                /\ info.ignoreTransparent => Alpha(srcWorld[q]) = 255})
    /\ BlurUsesMasked

\* The blur ran for a line pixel whose window holds a target-coloured pixel
\* of the edge margin (mask 0) next to neighbours that were used for the fill.
C30_Witness ==
    /\ BlurReturned
    /\ \E p \in Pos :
          /\ FilledAt(p)
          /\ pass1Out[p] # srcWorld[p]
          /\ \E e \in Window(p, info.searchRadius) :
                /\ NearBorder(e)
                /\ MatchesTarget(e)
                /\ e \in Window(p, blurRadius)
                /\ lineMask[e] = 0

=============================================================================
